---- MODULE Spec2Model ----
\* SmartPicks dashboard front-ends: the override store and history tab of
\* src/unnamed/part_000, the tab controllers, the data loaders, the score
\* tickers and the chart renderers of the dashboard variants.  Each variant is
\* its own program; a specification below runs one group of variants and
\* leaves the other groups' variables where their Idle predicate puts them.
EXTENDS Integers, Sequences, FiniteSets, TLC

\* ------------------------------------------------------------------------
\* JavaScript values.  A string is a tuple of one-character strings; the
\* value undefined is the one-element tuple Undef (no string has an element
\* of several characters, so it is distinct from every string).
\* ------------------------------------------------------------------------
Undef == <<"#undefined">>

\* `${v}` in a template literal: undefined prints as the text "undefined".
Str(v) == IF v = Undef THEN <<"u","n","d","e","f","i","n","e","d">> ELSE v

\* JavaScript truthiness of a string-or-undefined value.
Truthy(v) == v # Undef /\ v # <<>>

\* The characters the class [a-zA-Z0-9_] accepts.
IdChars ==
  { "a","b","c","d","e","f","g","h","i","j","k","l","m",
    "n","o","p","q","r","s","t","u","v","w","x","y","z",
    "A","B","C","D","E","F","G","H","I","J","K","L","M",
    "N","O","P","Q","R","S","T","U","V","W","X","Y","Z",
    "0","1","2","3","4","5","6","7","8","9","_" }

\* A mutant of Sanitize whose character class lacks the digits.
SanitizeNoDigits(raw) ==
  [i \in 1..Len(raw) |->
     IF raw[i] \in IdChars \ {"0","1","2","3","4","5","6","7","8","9"}
       THEN raw[i] ELSE "_"]

\* raw.replace(/[^a-zA-Z0-9_]/g, "_")
Sanitize(raw) == [i \in 1..Len(raw) |-> IF raw[i] \in IdChars THEN raw[i] ELSE "_"]

makeBetId(bet) ==
  Sanitize(Str(bet.sport) \o <<"_">> \o Str(bet.match) \o <<"_">> \o Str(bet.team)
           \o <<"_">> \o Str(bet.market) \o <<"_">> \o Str(bet.event_time))

\* ------------------------------------------------------------------------
\* Manual override store and history tab (src/unnamed/part_000)
\* ------------------------------------------------------------------------
VARIABLES
  storage,     \* localStorage["manualOverrides"]: the stored text
  rows,        \* the rows of #history-list: <<[betId, shown]>>
  histPhase,   \* "loading" while data.json is in flight, else "idle"
  dlButton,    \* TRUE when #download-overrides is in the document
  loaded,      \* the history array the rows were rendered from
  lastOp,      \* the operation that ran last
  completed,   \* whether that operation ran to its end without throwing
  manual,      \* history variable: id -> result of the last completed setManual
  exported,    \* the manual_overrides.json the operation that ran last
               \* handed to the browser (Undef: it downloaded nothing)
  graded       \* history variable: the bets a completed setManual was run for

varsOv == <<storage, rows, histPhase, dlButton, loaded, lastOp, completed, manual,
            exported, graded>>

\* Result strings.  UndefR stands for a missing result field.
UndefR == "#undefined"
GradeResults == {"WIN", "LOSS", "PUSH"}
ShowResult(r) == IF r = UndefR THEN "undefined" ELSE r

\* The bets the loaded data may carry.  bet1 and bet2 differ in the match
\* label only by a character outside [a-zA-Z0-9_]; bet3 and bet5 carry a
\* bet_id; bet4's result field is missing; bet6 carries the empty bet_id.
MkBet(id, match, res) ==
  [bet_id |-> id, sport |-> <<"n","b","a">>, match |-> match, team |-> <<"t">>,
   market |-> <<"h","2","h">>, event_time |-> <<"1",":","0">>, result |-> res]

Bets ==
  { MkBet(Undef, <<"a","@","b">>, "WIN"),
    MkBet(Undef, <<"a","_","b">>, "LOSS"),
    MkBet(<<"x","1">>, <<"a","@","b">>, "WIN"),
    MkBet(Undef, <<"c">>, UndefR),
    MkBet(<<"x","1">>, <<"c">>, "PENDING"),
    MkBet(<<>>, <<"c">>, "PENDING") }

\* Longest history array a load delivers.
MaxHistory == 2

Histories == UNION { [1..n -> Bets] : n \in 0..MaxHistory }

\* data.json as the loader of part_000 reads it.  picks: "ok", or "bad" when
\* data.picks is missing or a pick lacks ev/recommended_stake; history: an
\* array; hasHistory = FALSE when the field is missing.
Feeds ==
  { f \in [picks : {"ok", "bad"}, hasHistory : BOOLEAN, history : Histories] :
      f.hasHistory \/ f.history = <<>> }

\* The identifier a history row is rendered and graded under.
BetIdOf(bet) == IF Truthy(bet.bet_id) THEN bet.bet_id ELSE makeBetId(bet)

\* Stored text.  kind "absent": getItem returns null; "empty": the empty
\* string; "invalid": text JSON.parse rejects; "null": the text null;
\* "object": the text of a JSON object, whose entries are map.
NoMap == [k \in {} |-> "WIN"]
StoredText(kind, map) == [kind |-> kind, map |-> map]
JSONstringify(overrides) == StoredText("object", overrides)

\* JSON.parse: [ok, isObject, map].
JSONparse(text) ==
  CASE text.kind = "invalid" -> [ok |-> FALSE, isObject |-> FALSE, map |-> NoMap]
    [] text.kind = "null"    -> [ok |-> TRUE,  isObject |-> FALSE, map |-> NoMap]
    [] OTHER                 -> [ok |-> TRUE,  isObject |-> TRUE,  map |-> text.map]

\* A mutant of loadManualOverrides that always starts from the empty map.
loadManualOverridesEmpty(st) == [ok |-> TRUE, isObject |-> TRUE, map |-> NoMap]

\* loadManualOverrides: data ? JSON.parse(data) : {}.  ok = FALSE: it threw.
loadManualOverrides(st) ==
  IF st.kind \in {"absent", "empty"}
    THEN [ok |-> TRUE, isObject |-> TRUE, map |-> NoMap]
    ELSE JSONparse(st)

\* overrides[betId] of a plain object: undefined (UndefR) when not a key.
Lookup(map, id) == IF id \in DOMAIN map THEN map[id] ELSE UndefR

\* overrides[betId] || bet.result
AppliedResult(map, bet) ==
  LET o == Lookup(map, BetIdOf(bet))
  IN IF o # UndefR /\ o # "" THEN o ELSE bet.result

\* A mutant of the assignment that keeps no other entry.
SetKeyOnly(map, id, r) == [k \in {id} |-> r]

\* overrides[betId] = result
SetKey(map, id, r) == [k \in DOMAIN map \cup {id} |-> IF k = id THEN r ELSE map[k]]

InitOv ==
  /\ storage \in { StoredText("absent", NoMap), StoredText("empty", NoMap),
                   StoredText("invalid", NoMap), StoredText("null", NoMap),
                   StoredText("object", NoMap),
                   StoredText("object", [k \in {<<"x","1">>} |-> "PUSH"]) }
  /\ rows = <<>>
  /\ histPhase = "loading"
  /\ dlButton = FALSE
  /\ loaded = <<>>
  /\ lastOp = "reload"
  /\ completed = TRUE
  /\ manual = NoMap
  /\ exported = Undef
  /\ graded = {}

IdleOv ==
  /\ storage = StoredText("absent", NoMap)
  /\ rows = <<>>
  /\ histPhase = "idle"
  /\ dlButton = FALSE
  /\ loaded = <<>>
  /\ lastOp = "none"
  /\ completed = TRUE
  /\ manual = NoMap
  /\ exported = Undef
  /\ graded = {}

\* Page reload: the document is rebuilt from the markup, local storage is
\* kept, and the loader issues fetch("data.json").
Reload ==
  /\ histPhase = "idle"
  /\ rows' = <<>>
  /\ dlButton' = FALSE
  /\ loaded' = <<>>
  /\ histPhase' = "loading"
  /\ lastOp' = "reload"
  /\ completed' = TRUE
  /\ exported' = Undef
  /\ UNCHANGED <<storage, manual, graded>>

\* The fetch rejects or r.json() throws: .catch logs, nothing is rendered.
LoadFailed ==
  /\ histPhase = "loading"
  /\ histPhase' = "idle"
  /\ lastOp' = "loadFailed"
  /\ completed' = TRUE
  /\ exported' = Undef
  /\ UNCHANGED <<storage, rows, dlButton, loaded, manual, graded>>

\* The rows renderHistoryTab appends, in order.
RenderedRows(map, history) ==
  [i \in 1..Len(history) |->
     [betId |-> BetIdOf(history[i]),
      shown |-> ShowResult(AppliedResult(map, history[i]))]]

\* The .then(data => ...) continuation.  renderSummaryTab and renderPicksTab
\* run first and throw on a missing picks/history field; renderHistoryTab
\* then rebuilds the tab: the download button, then the rows.
LoadDone ==
  /\ histPhase = "loading"
  /\ \E data \in Feeds :
       /\ histPhase' = "idle"
       /\ IF data.picks = "bad" \/ ~data.hasHistory
            THEN /\ lastOp' = "loadFailed"
                 /\ completed' = TRUE
                 /\ UNCHANGED <<rows, dlButton, loaded>>
            ELSE LET ld == loadManualOverrides(storage)
                 IN /\ lastOp' = "render"
                    /\ dlButton' = TRUE
                    /\ loaded' = data.history
                    /\ completed' = (ld.ok /\ (ld.isObject \/ data.history = <<>>))
                    /\ rows' = IF ld.ok /\ ld.isObject
                                 THEN RenderedRows(ld.map, data.history)
                                 ELSE <<>>
       /\ exported' = Undef
       /\ UNCHANGED <<storage, manual, graded>>

\* A click on the WIN/LOSS/PUSH button of row i: setManual(betId, result, row).
setManualAt(i, result) ==
  /\ histPhase = "idle"
  /\ LET ld == loadManualOverrides(storage)
         betId == rows[i].betId
     IN /\ lastOp' = "setManual"
        /\ IF ld.ok /\ ld.isObject
             THEN /\ storage' = JSONstringify(SetKey(ld.map, betId, result))
                  /\ rows' = [rows EXCEPT ![i].shown = result]
                  /\ manual' = SetKey(manual, betId, result)
                  /\ completed' = TRUE
             ELSE /\ completed' = FALSE
                  /\ UNCHANGED <<storage, rows, manual>>
  /\ exported' = Undef
  /\ UNCHANGED <<histPhase, dlButton, loaded>>

setManual ==
  /\ \E i \in 1..Len(rows), result \in GradeResults : setManualAt(i, result)
  /\ UNCHANGED graded

\* The same click, with the graded bet recorded in the history variable.
setManualRecorded ==
  \E i \in 1..Len(rows), result \in GradeResults :
    /\ setManualAt(i, result)
    /\ graded' = IF completed' THEN graded \cup {loaded[i]} ELSE graded

\* A click on #download-overrides.
downloadOverrides ==
  /\ histPhase = "idle"
  /\ dlButton
  /\ LET ld == loadManualOverrides(storage)
     IN /\ lastOp' = "download"
        /\ completed' = ld.ok
        /\ exported' = IF ~ld.ok THEN Undef
                       ELSE IF ld.isObject THEN JSONstringify(ld.map)
                       ELSE StoredText("null", NoMap)
  /\ UNCHANGED <<storage, rows, histPhase, dlButton, loaded, manual, graded>>

\* ------------------------------------------------------------------------
\* Tab navigation controllers (src/tabs.js, setupTabs of src/app.js and of
\* src/unnamed/part_011, the inline handler of src/unnamed/part_000)
\* ------------------------------------------------------------------------
VARIABLES
  tabVariant,    \* which controller the page runs
  panelsPresent, \* the tab panels that exist in the document
  btnActive,     \* the triggers carrying the class "active"
  panelActive,   \* the panels carrying the class "active"
  lastClicked,   \* the trigger clicked last (0: none yet)
  tabMarkup,     \* the trigger/panel pair the markup marks active
  tabErr         \* TRUE when the last click handler threw

varsTab == <<tabVariant, panelsPresent, btnActive, panelActive, lastClicked,
             tabMarkup, tabErr>>

\* Number of tab triggers in the strip; trigger t names panel t.
NumTabs == 3

Triggers == 1..NumTabs
TabVariants == {"tabs_js", "app_js", "part_000", "part_011"}

\* A mutant of RemoveActiveAll that removes the class from no element.
RemoveActiveNone(elems, marked) == marked

\* elems.forEach(e => e.classList.remove("active"))
RemoveActiveAll(elems, marked) == marked \ elems

\* The pairs the markup may mark active at load time: exactly one pair is
\* marked, and its panel is in the document.
MarkupChoices(present) == present

InitTab ==
  /\ tabVariant \in TabVariants
  /\ panelsPresent \in (SUBSET Triggers) \ {{}}
  /\ tabMarkup \in MarkupChoices(panelsPresent)
  /\ btnActive = {tabMarkup}
  /\ panelActive = {tabMarkup}
  /\ lastClicked = 0
  /\ tabErr = FALSE

IdleTab ==
  /\ tabVariant = "none"
  /\ panelsPresent = {}
  /\ btnActive = {}
  /\ panelActive = {}
  /\ lastClicked = 0
  /\ tabMarkup = 0
  /\ tabErr = FALSE

\* src/tabs.js: no null check on getElementById(target).
ClickTabsJs(t) ==
  /\ tabVariant = "tabs_js"
  /\ btnActive' = RemoveActiveAll(Triggers, btnActive) \cup {t}
  /\ panelActive' = IF t \in panelsPresent
                      THEN RemoveActiveAll(panelsPresent, panelActive) \cup {t}
                      ELSE RemoveActiveAll(panelsPresent, panelActive)
  /\ tabErr' = (t \notin panelsPresent)
  /\ lastClicked' = t
  /\ UNCHANGED <<tabVariant, panelsPresent, tabMarkup>>

\* src/app.js setupTabs: if (target) target.classList.add("active").
ClickAppJs(t) ==
  /\ tabVariant = "app_js"
  /\ btnActive' = RemoveActiveAll(Triggers, btnActive) \cup {t}
  /\ panelActive' = IF t \in panelsPresent
                      THEN RemoveActiveAll(panelsPresent, panelActive) \cup {t}
                      ELSE RemoveActiveAll(panelsPresent, panelActive)
  /\ tabErr' = FALSE
  /\ lastClicked' = t
  /\ UNCHANGED <<tabVariant, panelsPresent, tabMarkup>>

\* src/unnamed/part_000: the handler never touches the triggers' classes and
\* has no null check.
ClickPart000(t) ==
  /\ tabVariant = "part_000"
  /\ btnActive' = btnActive
  /\ panelActive' = IF t \in panelsPresent
                      THEN RemoveActiveAll(panelsPresent, panelActive) \cup {t}
                      ELSE RemoveActiveAll(panelsPresent, panelActive)
  /\ tabErr' = (t \notin panelsPresent)
  /\ lastClicked' = t
  /\ UNCHANGED <<tabVariant, panelsPresent, tabMarkup>>

\* src/unnamed/part_011 setupTabs: both sets cleared, the trigger marked,
\* then getElementById(btn.dataset.tab).classList with no null check.
ClickPart011(t) ==
  /\ tabVariant = "part_011"
  /\ btnActive' = RemoveActiveAll(Triggers, btnActive) \cup {t}
  /\ panelActive' = IF t \in panelsPresent
                      THEN RemoveActiveAll(panelsPresent, panelActive) \cup {t}
                      ELSE RemoveActiveAll(panelsPresent, panelActive)
  /\ tabErr' = (t \notin panelsPresent)
  /\ lastClicked' = t
  /\ UNCHANGED <<tabVariant, panelsPresent, tabMarkup>>

\* ------------------------------------------------------------------------
\* Data loaders: loadData of src/app.js, src/unnamed/part_008 and
\* src/unnamed/part_010, loadSmartPicks of src/unnamed/part_012
\* ------------------------------------------------------------------------
VARIABLES
  ldVariant,   \* which loader the page runs
  ldPhase,     \* "fetching", "rendering" or "done"
  ldGen,       \* number of the current load cycle
  ldOutcome,   \* how the fetch of the current cycle settled
  ldFeed,      \* the parsed body the renderers of this cycle read
  ldPc,        \* index of the next renderer of the pipeline
  ldThrew,     \* the section whose renderer threw in this cycle ("none")
  content,     \* section -> [kind, gen]: what the section shows
  ldLogged     \* TRUE when this cycle called console.error

varsLd == <<ldVariant, ldPhase, ldGen, ldOutcome, ldFeed, ldPc, ldThrew, content, ldLogged>>

\* Load cycles one page runs (the first load and the timer's refreshes).
MaxLoads == 2

LdVariants == {"app_js", "part_008", "part_010", "part_012"}

\* The renderers each loader calls, in order, named by the section they fill.
Pipeline(v) ==
  CASE v = "app_js"   -> <<"last-updated", "picks", "summary", "performance",
                           "history", "future", "analytics">>
    [] v = "part_008" -> <<"summary", "picks", "analytics", "history", "last-updated">>
    [] v = "part_010" -> <<"last-updated", "summary", "picks", "history", "analytics">>
    [] v = "part_012" -> <<"today", "overall", "bankroll-summary", "picks",
                           "bankrollChart", "roiChart", "sportWinChart",
                           "confidenceChart", "last-updated">>
    [] OTHER          -> <<>>

Sections == UNION { { Pipeline(v)[i] : i \in 1..Len(Pipeline(v)) } : v \in LdVariants }

\* The tabs of each dashboard (every section but the timestamp line).
TabsOf(v) == { Pipeline(v)[i] : i \in 1..Len(Pipeline(v)) } \ {"last-updated"}

\* Whether the loader throws on a non-2xx status before parsing the body.
ChecksStatus(v) == v \in {"part_008", "part_010", "part_012"}

\* The sections the loader's catch block overwrites with a failure message.
CatchSections(v) ==
  CASE v = "part_010" -> {"summary", "picks", "history", "analytics"}
    [] v = "part_008" -> {"summary"}
    [] v = "part_012" -> {"picks"}
    [] OTHER          -> {}

\* Whether the loader re-runs on a timer (setInterval in part_012).
HasTimer(v) == v = "part_012"

\* How the fetch settles: the request rejects; a non-2xx status with a JSON
\* body; a non-2xx status with a body that is not JSON; a 2xx status with a
\* body that is not JSON; a 2xx status with a JSON body.
FetchOutcomes == {"network", "http_json", "http_text", "bad_json", "ok"}
IsFailure(o) == o \in {"network", "http_json", "http_text", "bad_json"}

\* A parsed body.  shape "full": every field present; "bare": an object with
\* none of the fields (an error body).  bad: the first section whose field is
\* malformed so that its renderer throws ("none": no renderer throws).
LdFeeds == [shape : {"full", "bare"}, bad : Sections \cup {"none"}]
NoFeed == [shape |-> "none", bad |-> "none"]

\* What a renderer does with an absent field.  Only app.js parses an error
\* body: populateTopPicks and the two history views draw their empty state,
\* the others return without touching their section.
DrawsWhenAbsent(sec) == sec \in {"picks", "history", "future"}

Shown(kind, gen) == [kind |-> kind, gen |-> gen]

\* The catch block: the failure message in each section it names.
CatchEffect(v, cont, gen) ==
  [sec \in Sections |-> IF sec \in CatchSections(v) THEN Shown("failed", gen) ELSE cont[sec]]

InitLd ==
  /\ ldVariant \in LdVariants
  /\ ldPhase = "fetching"
  /\ ldGen = 1
  /\ ldOutcome = "pending"
  /\ ldFeed = NoFeed
  /\ ldPc = 0
  /\ ldThrew = "none"
  /\ content = [sec \in Sections |-> Shown("initial", 0)]
  /\ ldLogged = FALSE

IdleLd ==
  /\ ldVariant = "none"
  /\ ldPhase = "done"
  /\ ldGen = 0
  /\ ldOutcome = "pending"
  /\ ldFeed = NoFeed
  /\ ldPc = 0
  /\ ldThrew = "none"
  /\ content = [sec \in Sections |-> Shown("initial", 0)]
  /\ ldLogged = FALSE

\* Whether the try block reaches the renderers with a parsed body.
ReachesRender(v, o) ==
  \/ o = "ok"
  \/ o = "http_json" /\ ~ChecksStatus(v)

\* The fetch settles and the loader cannot parse a body (or refuses the
\* status): the catch block runs.
FetchFails ==
  /\ ldPhase = "fetching"
  /\ \E o \in FetchOutcomes :
       /\ ~ReachesRender(ldVariant, o)
       /\ ldOutcome' = o
  /\ content' = CatchEffect(ldVariant, content, ldGen)
  /\ ldLogged' = TRUE
  /\ ldPhase' = "done"
  /\ UNCHANGED <<ldVariant, ldGen, ldFeed, ldPc, ldThrew>>

\* The fetch settles with a body the loader parses; the renderers follow.
FetchParses ==
  /\ ldPhase = "fetching"
  /\ \E o \in FetchOutcomes, feed \in LdFeeds :
       /\ ReachesRender(ldVariant, o)
       /\ o = "http_json" => feed.shape = "bare"
       /\ feed.shape = "bare" => ldVariant = "app_js" /\ feed.bad = "none"
       /\ feed.bad \in TabsOf(ldVariant) \cup {"none"}
       /\ ldOutcome' = o
       /\ ldFeed' = feed
  /\ ldPc' = 1
  /\ ldPhase' = "rendering"
  /\ UNCHANGED <<ldVariant, ldGen, ldThrew, content, ldLogged>>

\* The next renderer of the pipeline runs.  A renderer that throws ends the
\* try block: the catch block runs and the renderers after it are skipped.
RenderStep ==
  /\ ldPhase = "rendering"
  /\ LET sec == Pipeline(ldVariant)[ldPc]
         last == ldPc = Len(Pipeline(ldVariant))
     IN IF ldFeed.bad = sec
          THEN /\ ldThrew' = sec
               /\ content' = CatchEffect(ldVariant, content, ldGen)
               /\ ldLogged' = TRUE
               /\ ldPhase' = "done"
               /\ UNCHANGED ldPc
          ELSE /\ content' =
                    IF ldFeed.shape = "full"
                      THEN [content EXCEPT ![sec] = Shown("data", ldGen)]
                    ELSE IF DrawsWhenAbsent(sec)
                      THEN [content EXCEPT ![sec] = Shown("errbody", ldGen)]
                    ELSE content
               /\ ldPhase' = IF last THEN "done" ELSE "rendering"
               /\ ldPc' = IF last THEN ldPc ELSE ldPc + 1
               /\ UNCHANGED <<ldThrew, ldLogged>>
  /\ UNCHANGED <<ldVariant, ldGen, ldOutcome, ldFeed>>

\* setInterval(loadSmartPicks, AUTO_REFRESH_MS): the next cycle starts.
RefreshTick ==
  /\ HasTimer(ldVariant)
  /\ ldPhase = "done"
  /\ ldGen < MaxLoads
  /\ ldGen' = ldGen + 1
  /\ ldPhase' = "fetching"
  /\ ldOutcome' = "pending"
  /\ ldFeed' = NoFeed
  /\ ldPc' = 0
  /\ ldThrew' = "none"
  /\ ldLogged' = FALSE
  /\ UNCHANGED <<ldVariant, content>>

\* ------------------------------------------------------------------------
\* loadAll of src/unnamed/part_013: data.json, then scores.json, then the
\* renderers; started at startup and by setInterval every 60 seconds
\* ------------------------------------------------------------------------
VARIABLES
  laCycle,     \* cycle -> [pc, data, outcome]
  laStarted,   \* number of cycles started so far
  laLast,      \* the cycle whose renderers ran to the end last (0: none)
  picksDom,    \* pick container -> what it shows
  statsDom,    \* the cycle the stats line was rendered from (0: markup)
  parlayDom,   \* the cycle the parlay card was rendered from (0: markup)
  tickerDom,   \* [kind, gen]: what #ticker shows
  errorBox     \* TRUE when #error-message is displayed

varsLa == <<laCycle, laStarted, laLast, picksDom, statsDom, parlayDom, tickerDom, errorBox>>

\* Load cycles started in one run (the startup call and the timer's ticks).
MaxCycles == 2

Cycles == 1..MaxCycles

\* SPORT_KEY_TO_DOM_ID, cut to two of its keys; every other key of
\* pick_cards (here golf_pga) has no entry.
MappedKeys == {"basketball_nba", "americanfootball_nfl"}
SportKeys == MappedKeys \cup {"golf_pga"}
DomIdOf(key) == IF key = "basketball_nba" THEN "nba-picks" ELSE "nfl-picks"
DomIds == { DomIdOf(k) : k \in MappedKeys }

\* pick_cards: a map from some sport keys to pick arrays.
PickLists == {<<>>, <<"p1">>}
PickCards == UNION { [ks -> PickLists] : ks \in SUBSET SportKeys }

\* data.json as loadAll reads it.  throws: the renderer that throws on this
\* body (renderStats on a non-numeric win_rate, renderParlay on a parlay
\* without total_ev), or "none".
NoCards == [k \in {} |-> <<>>]
LaFeed(cards, throws) == [pick_cards |-> cards, throws |-> throws]
LaFeeds ==
  { LaFeed(cards, "none") : cards \in PickCards }
    \cup { LaFeed(NoCards, t) : t \in {"stats", "parlay"} }
Null == [pick_cards |-> NoCards, throws |-> "null"]

\* What loadJSON("scores.json") returns: null on a fetch or parse failure,
\* a body without games, or a body with games.
ScoresResults == {"null", "empty", "games"}

Markup == <<"#markup">>
Placeholder == <<"#no-picks">>

\* renderPicks: only the containers of the keys present in pick_cards are
\* written.
renderPicks(data, dom) ==
  [d \in DomIds |->
     IF \E k \in DOMAIN data.pick_cards \cap MappedKeys : DomIdOf(k) = d
       THEN LET k == CHOOSE k \in DOMAIN data.pick_cards \cap MappedKeys : DomIdOf(k) = d
            IN IF data.pick_cards[k] = <<>> THEN Placeholder ELSE data.pick_cards[k]
       ELSE dom[d]]

\* renderScores: the static segment when there are no games.
renderScores(scores, gen) ==
  IF scores = "empty" THEN [kind |-> "none", gen |-> gen]
                      ELSE [kind |-> "scores", gen |-> gen]

NotStarted == [pc |-> "unstarted", data |-> Null, outcome |-> "none"]

InitLa ==
  /\ laCycle = [c \in Cycles |-> IF c = 1 THEN [NotStarted EXCEPT !.pc = "data"]
                                          ELSE NotStarted]
  /\ laStarted = 1
  /\ laLast = 0
  /\ picksDom = [d \in DomIds |-> Markup]
  /\ statsDom = 0
  /\ parlayDom = 0
  /\ tickerDom = [kind |-> "markup", gen |-> 0]
  /\ errorBox = FALSE

IdleLa ==
  /\ laCycle = [c \in Cycles |-> NotStarted]
  /\ laStarted = 0
  /\ laLast = 0
  /\ picksDom = [d \in DomIds |-> Markup]
  /\ statsDom = 0
  /\ parlayDom = 0
  /\ tickerDom = [kind |-> "markup", gen |-> 0]
  /\ errorBox = FALSE

\* The interval timer fires: loadAll starts, whatever the earlier cycles do.
LoadAllTick ==
  /\ laStarted >= 1
  /\ laStarted < MaxCycles
  /\ laStarted' = laStarted + 1
  /\ laCycle' = [laCycle EXCEPT ![laStarted + 1].pc = "data"]
  /\ UNCHANGED <<laLast, picksDom, statsDom, parlayDom, tickerDom, errorBox>>

\* loadJSON("data.json") returns to cycle c (null after showError on any
\* failure); loadAll goes on to await loadJSON("scores.json").
DataSettles(c) ==
  /\ laCycle[c].pc = "data"
  /\ \E d \in LaFeeds \cup {Null} :
       /\ laCycle' = [laCycle EXCEPT ![c].pc = "scores", ![c].data = d]
       /\ errorBox' = (errorBox \/ d = Null)
  /\ UNCHANGED <<laStarted, laLast, picksDom, statsDom, parlayDom, tickerDom>>

\* loadJSON("scores.json") returns to cycle c and the rest of loadAll runs.
ScoresSettles(c) ==
  /\ laCycle[c].pc = "scores"
  /\ \E sc \in ScoresResults :
       LET data == laCycle[c].data
       IN /\ errorBox' = (errorBox \/ sc = "null" \/ data = Null)
          /\ IF data = Null
               THEN /\ laCycle' = [laCycle EXCEPT ![c].pc = "done", ![c].outcome = "nodata"]
                    /\ UNCHANGED <<laLast, picksDom, statsDom, parlayDom, tickerDom>>
             ELSE IF data.throws = "stats"
               THEN /\ laCycle' = [laCycle EXCEPT ![c].pc = "done", ![c].outcome = "threw"]
                    /\ UNCHANGED <<laLast, picksDom, statsDom, parlayDom, tickerDom>>
             ELSE IF data.throws = "parlay"
               THEN /\ laCycle' = [laCycle EXCEPT ![c].pc = "done", ![c].outcome = "threw"]
                    /\ statsDom' = c
                    /\ UNCHANGED <<laLast, picksDom, parlayDom, tickerDom>>
             ELSE /\ laCycle' = [laCycle EXCEPT ![c].pc = "done",
                                                ![c].outcome = IF sc = "null" THEN "noscores"
                                                               ELSE "rendered"]
                  /\ statsDom' = c
                  /\ parlayDom' = c
                  /\ picksDom' = renderPicks(data, picksDom)
                  /\ tickerDom' = IF sc = "null" THEN tickerDom ELSE renderScores(sc, c)
                  /\ laLast' = c
  /\ UNCHANGED laStarted

\* ------------------------------------------------------------------------
\* Score tickers: updateScoresTicker of src/unnamed/part_000 (once per page
\* load) and fetchLiveScores of src/unnamed/part_010 (at startup and every
\* 60 seconds)
\* ------------------------------------------------------------------------
VARIABLES
  tkVariant,   \* which ticker the page runs
  tkRefresh,   \* refresh -> [pc, idx, items, outcome]; idx: the sport the loop is at
  tkStarted,   \* number of refreshes started so far
  tkLastDone,  \* the refresh that finished last (0: none)
  ticker       \* [kind, gen, items]: what #score-ticker shows

varsTk == <<tkVariant, tkRefresh, tkStarted, tkLastDone, ticker>>

\* Ticker refreshes in one run.
MaxRefresh == 2

Refreshes == 1..MaxRefresh
TkVariants == {"part_000", "part_010"}

\* const sports = ["basketball_nba", "americanfootball_nfl", "soccer_epl"]
TickerSports == <<"basketball_nba", "americanfootball_nfl", "soccer_epl">>

\* How fetch("scores.json").then(r => r.json()) settles in part_000: the
\* request rejects; the body is not JSON; the body is JSON but no array; the
\* body is null; an empty array; games none of which is completed; games
\* with a completed one.
ScoresOutcomes000 ==
  {"reject", "bad_json", "not_array", "json_null", "empty", "no_completed", "games"}

\* How one per-sport request of part_010 settles: the request rejects; a
\* non-2xx status; a body that is not JSON; games none of which is on an
\* open bet's event; games one of which is.
SportOutcomes010 == {"reject", "not_ok", "bad_json", "no_match", "games"}

\* How the data.json request of part_010 settles: a failure of the fetch,
\* of the parse or of data.history.filter; or a body with a history array.
DataOutcomes010 == {"fail", "ok"}

TickerShows(kind, gen, items) == [kind |-> kind, gen |-> gen, items |-> items]

\* The .then/.catch of updateScoresTicker.
updateScoresTicker(o, gen) ==
  CASE o \in {"reject", "bad_json", "not_array"} -> TickerShows("failed", gen, {})
    [] o \in {"json_null", "empty"}               -> TickerShows("none", gen, {})
    [] o = "no_completed"                         -> TickerShows("nocompleted", gen, {})
    [] OTHER                                      -> TickerShows("scores", gen, {"scores.json"})

\* The end of the try block of fetchLiveScores.
tickerItems010(items, gen) ==
  IF items = {} THEN TickerShows("none", gen, {}) ELSE TickerShows("scores", gen, items)

TkIdle == [pc |-> "unstarted", idx |-> 0, items |-> {}, outcome |-> "none"]

InitTk ==
  /\ tkVariant \in TkVariants
  /\ tkRefresh = [r \in Refreshes |->
                    IF r = 1 THEN [TkIdle EXCEPT !.pc = IF tkVariant = "part_000"
                                                          THEN "scores" ELSE "data"]
                             ELSE TkIdle]
  /\ tkStarted = 1
  /\ tkLastDone = 0
  /\ ticker = TickerShows("markup", 0, {})

IdleTk ==
  /\ tkVariant = "none"
  /\ tkRefresh = [r \in Refreshes |-> TkIdle]
  /\ tkStarted = 0
  /\ tkLastDone = 0
  /\ ticker = TickerShows("markup", 0, {})

\* part_000: the page is reloaded once the refresh has finished; the ticker
\* is the markup's again and the loader calls updateScoresTicker.
TickerReload000 ==
  /\ tkVariant = "part_000"
  /\ tkStarted < MaxRefresh
  /\ tkRefresh[tkStarted].pc = "done"
  /\ tkStarted' = tkStarted + 1
  /\ tkRefresh' = [tkRefresh EXCEPT ![tkStarted + 1].pc = "scores"]
  /\ ticker' = TickerShows("markup", 0, {})
  /\ tkLastDone' = 0
  /\ UNCHANGED tkVariant

\* part_000: the scores.json request settles.
ScoresSettle000(r) ==
  /\ tkVariant = "part_000"
  /\ tkRefresh[r].pc = "scores"
  /\ \E o \in ScoresOutcomes000 :
       /\ tkRefresh' = [tkRefresh EXCEPT ![r].pc = "done", ![r].outcome = o]
       /\ ticker' = updateScoresTicker(o, r)
  /\ tkLastDone' = r
  /\ UNCHANGED <<tkVariant, tkStarted>>

\* part_010: setInterval(fetchLiveScores, 60000) fires.
TickerTick010 ==
  /\ tkVariant = "part_010"
  /\ tkStarted < MaxRefresh
  /\ tkStarted' = tkStarted + 1
  /\ tkRefresh' = [tkRefresh EXCEPT ![tkStarted + 1].pc = "data"]
  /\ UNCHANGED <<tkVariant, tkLastDone, ticker>>

\* part_010: the data.json request of refresh r settles.
DataSettle010(r) ==
  /\ tkVariant = "part_010"
  /\ tkRefresh[r].pc = "data"
  /\ \E o \in DataOutcomes010 :
       IF o = "fail"
         THEN /\ tkRefresh' = [tkRefresh EXCEPT ![r].pc = "done", ![r].outcome = "data_failed"]
              /\ tkLastDone' = r
         ELSE /\ tkRefresh' = [tkRefresh EXCEPT ![r].pc = "sport", ![r].idx = 1]
              /\ UNCHANGED tkLastDone
  /\ UNCHANGED <<tkVariant, tkStarted, ticker>>

\* part_010: the request for the sport the loop of refresh r is at settles.
\* A rejection or a parse failure leaves the try block: the catch block only
\* logs.  After the last sport the ticker is written.
SportSettle010(r) ==
  /\ tkVariant = "part_010"
  /\ tkRefresh[r].pc = "sport"
  /\ \E o \in SportOutcomes010 :
       LET i == tkRefresh[r].idx
           items == IF o = "games" THEN tkRefresh[r].items \cup {TickerSports[i]}
                                   ELSE tkRefresh[r].items
       IN IF o \in {"reject", "bad_json"}
            THEN /\ tkRefresh' = [tkRefresh EXCEPT ![r].pc = "done",
                                                   ![r].outcome = "unreachable"]
                 /\ tkLastDone' = r
                 /\ UNCHANGED ticker
          ELSE IF i < Len(TickerSports)
            THEN /\ tkRefresh' = [tkRefresh EXCEPT ![r].idx = i + 1, ![r].items = items]
                 /\ UNCHANGED <<tkLastDone, ticker>>
          ELSE /\ tkRefresh' = [tkRefresh EXCEPT
                                  ![r].pc = "done", ![r].items = items,
                                  ![r].outcome = IF items = {} THEN "empty" ELSE "games"]
               /\ ticker' = tickerItems010(items, r)
               /\ tkLastDone' = r
  /\ UNCHANGED <<tkVariant, tkStarted>>

\* ------------------------------------------------------------------------
\* Chart renderers: renderCharts of src/app.js, renderAnalyticsTab of
\* src/unnamed/part_001 and of src/unnamed/part_008, the chart renderers of
\* src/unnamed/part_012
\* ------------------------------------------------------------------------
VARIABLES
  chVariant,   \* which dashboard the page runs
  chStrict,    \* TRUE: the charting library refuses a canvas that is in use
  chLive,      \* the chart instances not destroyed: [id, slot, el, kind]
  chHandle,    \* slot -> id held in the module-level variable (0: null)
  chEl,        \* slot -> the canvas element now in the document
  chNext,      \* id of the next chart instance
  chRenders,   \* analytics renders so far
  chThrew,     \* TRUE when the last render threw
  chInUse,     \* TRUE when it threw because the canvas was in use
  chInput      \* slot -> the source data the last render had ("none": no render)

varsCh == <<chVariant, chStrict, chLive, chHandle, chEl, chNext, chRenders,
            chThrew, chInUse, chInput>>

\* Analytics renders in one run.
MaxRenders == 2

ChVariants == {"app_js", "part_001", "part_008", "part_012"}
Slots == {"roi", "bankroll", "winrate", "sportWin", "confidence",
          "stakeBySport", "marketMix"}

\* The chart renderers each variant calls, in order.
ChartSlots(v) ==
  CASE v = "app_js"   -> <<"roi", "bankroll", "winrate">>
    [] v = "part_001" -> <<"stakeBySport", "marketMix">>
    [] v = "part_008" -> <<"bankroll", "winrate">>
    [] v = "part_012" -> <<"bankroll", "roi", "sportWin", "confidence">>
    [] OTHER          -> <<>>

\* The source data of one chart: the field is missing, an empty series, or
\* one of two different non-empty series.
SeriesKinds == {"missing", "empty", "h1", "h2"}

\* Whether the renderer returns on empty data before anything else.
GuardsFirst(v, slot) == v \in {"app_js", "part_001", "part_008"}

\* Whether the renderer destroys the instance its module variable holds.
Destroys(v, slot) == v \in {"part_001", "part_008", "part_012"}

\* Whether the renderer returns on empty data after the destroy.
GuardsAfterDestroy(v, slot) == v = "part_012" /\ slot = "confidence"

\* Whether a missing field makes the renderer throw (perf.x.map of undefined).
ThrowsOnMissing(v, slot) == v = "part_012" /\ slot \in {"bankroll", "roi"}

\* Whether the analytics render rebuilds the canvases (section.innerHTML).
RebuildsCanvases(v) == v = "part_008"

ChState(live, handle, next, threw, refused) ==
  [live |-> live, handle |-> handle, next |-> next, threw |-> threw,
   refused |-> refused]

\* instance.destroy()
DestroyChart(live, id) == { c \in live : c.id # id }

\* One chart renderer on the state st.
RenderChart(v, slot, kind, el, st) ==
  LET isEmpty == kind \in {"missing", "empty"}
      afterDestroy == IF Destroys(v, slot) /\ st.handle[slot] # 0
                        THEN DestroyChart(st.live, st.handle[slot])
                        ELSE st.live
      inUse == \E c \in afterDestroy : c.slot = slot /\ c.el = el
      made == [id |-> st.next, slot |-> slot, el |-> el, kind |-> kind]
  IN IF st.threw THEN st
     ELSE IF GuardsFirst(v, slot) /\ isEmpty THEN st
     ELSE IF GuardsAfterDestroy(v, slot) /\ isEmpty
       THEN ChState(afterDestroy, st.handle, st.next, FALSE, FALSE)
     ELSE IF ThrowsOnMissing(v, slot) /\ kind = "missing"
       THEN ChState(afterDestroy, st.handle, st.next, TRUE, FALSE)
     ELSE IF inUse /\ chStrict
       THEN ChState(afterDestroy, st.handle, st.next, TRUE, TRUE)
     ELSE ChState(afterDestroy \cup {made},
                  IF Destroys(v, slot) THEN [st.handle EXCEPT ![slot] = st.next]
                                       ELSE st.handle,
                  st.next + 1, FALSE, FALSE)

RECURSIVE RenderFrom(_, _, _, _, _)
RenderFrom(v, i, input, els, st) ==
  IF i > Len(ChartSlots(v)) THEN st
  ELSE LET slot == ChartSlots(v)[i]
       IN RenderFrom(v, i + 1, input, els, RenderChart(v, slot, input[slot], els[slot], st))

InitCh ==
  /\ chVariant \in ChVariants
  /\ chStrict \in BOOLEAN
  /\ chLive = {}
  /\ chHandle = [sl \in Slots |-> 0]
  /\ chEl = [sl \in Slots |-> 0]
  /\ chNext = 1
  /\ chRenders = 0
  /\ chThrew = FALSE
  /\ chInUse = FALSE
  /\ chInput = [sl \in Slots |-> "none"]

IdleCh ==
  /\ chVariant = "none"
  /\ chStrict = FALSE
  /\ chLive = {}
  /\ chHandle = [sl \in Slots |-> 0]
  /\ chEl = [sl \in Slots |-> 0]
  /\ chNext = 1
  /\ chRenders = 0
  /\ chThrew = FALSE
  /\ chInUse = FALSE
  /\ chInput = [sl \in Slots |-> "none"]

\* The analytics/chart render runs on freshly loaded data.
RenderAnalytics ==
  /\ chRenders < MaxRenders
  /\ \E drawn \in [{ChartSlots(chVariant)[i] : i \in 1..Len(ChartSlots(chVariant))}
                      -> SeriesKinds] :
          LET input == [sl \in Slots |-> IF sl \in DOMAIN drawn THEN drawn[sl] ELSE "empty"]
              els == IF RebuildsCanvases(chVariant)
                       THEN [sl \in Slots |-> chRenders + 1]
                       ELSE chEl
              st == RenderFrom(chVariant, 1, input, els,
                               ChState(chLive, chHandle, chNext, FALSE, FALSE))
          IN /\ chEl' = els
             /\ chLive' = st.live
             /\ chHandle' = st.handle
             /\ chNext' = st.next
             /\ chThrew' = st.threw
             /\ chInUse' = st.refused
             /\ chInput' = input
  /\ chRenders' = chRenders + 1
  /\ UNCHANGED <<chVariant, chStrict>>

\* ------------------------------------------------------------------------
\* Time-windowed, paginated tables of src/app.js: the 24-hour history view
\* and the 7-day future-bets view
\* ------------------------------------------------------------------------
VARIABLES
  vwInput,      \* the history array the last load handed to the two views
  vwNow,        \* per view, the instant new Date() gave its last filter
  dataFiltered, \* per view, historyDataFiltered / futureDataFiltered
  page,         \* per view, historyPage / futurePage
  tbody,        \* per view, what the table body shows: [kind, rows]
  pager,        \* per view, what the pagination container shows
  vwSummary,    \* what #future-summary shows
  vwThrew,      \* the view whose renderer threw in the last operation
  vwLastOp,     \* the last operation: "none", "load", "prev", "next"
  vwLastView    \* the view whose button the last click was on

varsVw == <<vwInput, vwNow, dataFiltered, page, tbody, pager, vwSummary,
            vwThrew, vwLastOp, vwLastView>>

Views == {"history", "future"}

HISTORY_PER_PAGE == 10
FUTURE_PER_PAGE == 10
PerPage(v) == IF v = "history" THEN HISTORY_PER_PAGE ELSE FUTURE_PER_PAGE

\* 24 * 60 * 60 * 1000 and 7 * 24 * 60 * 60 * 1000 milliseconds.
DayMs == 86400000
WeekMs == 604800000
Horizon(v) == IF v = "history" THEN DayMs ELSE WeekMs

\* Longest history array with every bet inside both windows.
MaxRows == 21

\* Longest history array with bets on the windows' edges.
MaxEdgeRows == 2

\* The instants new Date() may give a load.
Nows == {1000, 1001}

\* new Date(item.event_time): [valid, ms], valid = FALSE for Invalid Date.
\* A missing field or text that is no date gives Invalid Date; null gives
\* the epoch.
ParseDate(raw) ==
  CASE raw.kind = "iso"  -> [valid |-> TRUE, ms |-> raw.ms]
    [] raw.kind = "null" -> [valid |-> TRUE, ms |-> 0]
    [] OTHER             -> [valid |-> FALSE, ms |-> 0]

Iso(ms) == [kind |-> "iso", ms |-> ms]

\* A history record as the two views read it: its event_time, and whether
\* stake, profit and bankroll_after are numbers (toFixed throws otherwise).
Item(raw, numeric) == [event_time |-> raw, numeric |-> numeric]

\* Event times on and around the edges of the two windows, text that is
\* no date, a missing field and null.
EdgeTimes ==
  { Iso(999), Iso(1000), Iso(1001), Iso(1000 + DayMs), Iso(1001 + DayMs),
    Iso(1000 + WeekMs), Iso(1002 + WeekMs), [kind |-> "text", ms |-> 0],
    [kind |-> "undefined", ms |-> 0], [kind |-> "null", ms |-> 0] }

\* n bets inside both windows, the b-th of them (if any) without numbers.
Inside(n, b) == [i \in 1..n |-> Item(Iso(1002), i # b)]

VwHistories ==
  UNION { { Inside(n, b) : b \in 0..n } : n \in 0..MaxRows }
    \cup UNION { [1..n -> { Item(t, TRUE) : t \in EdgeTimes }] : n \in 1..MaxEdgeRows }

\* The filter of populateBetHistoryFiltered: eventTime >= now && eventTime <= cutoff.
\* A comparison with Invalid Date is false.
InHistoryWindow(item, now) ==
  LET eventTime == ParseDate(item.event_time)
  IN eventTime.valid /\ eventTime.ms >= now /\ eventTime.ms <= now + DayMs

\* The filter of populateFutureBets: eventTime > now && eventTime <= sevenDaysOut.
InFutureWindow(item, now) ==
  LET eventTime == ParseDate(item.event_time)
  IN eventTime.valid /\ eventTime.ms > now /\ eventTime.ms <= now + WeekMs

InWindow(v, item, now) ==
  IF v = "history" THEN InHistoryWindow(item, now) ELSE InFutureWindow(item, now)

\* Array.prototype.filter: the kept elements in their order.
RECURSIVE FilterWindow(_, _, _)
FilterWindow(v, history, now) ==
  IF history = <<>> THEN <<>>
  ELSE LET rest == FilterWindow(v, Tail(history), now)
       IN IF InWindow(v, Head(history), now) THEN <<Head(history)>> \o rest ELSE rest

\* Math.ceil(n / perPage)
TotalPages(v, n) == (n + PerPage(v) - 1) \div PerPage(v)

NoPager == [shown |-> FALSE, prev |-> FALSE, next |-> FALSE, x |-> 0, y |-> 0]
Body(kind, drawn) == [kind |-> kind, rows |-> drawn]

\* renderHistoryPage / renderFuturePage with renderHistoryPagination /
\* renderFuturePagination at its end.  Rows are named by their position in
\* the filtered array.  The row template calls toFixed on stake, profit and
\* bankroll_after: a row without them throws, the rows before it stay in
\* the table and the pagination container is not redrawn.
renderPage(v, list, pg, oldPager) ==
  LET n     == Len(list)
      start == (pg - 1) * PerPage(v)
      last  == IF start + PerPage(v) < n THEN start + PerPage(v) ELSE n
      idxs  == (start + 1)..last
      bads  == { i \in idxs : ~list[i].numeric }
      stop  == IF bads = {} THEN last
               ELSE (CHOOSE i \in bads : \A j \in bads : i <= j) - 1
      drawn == [i \in 1..(IF stop > start THEN stop - start ELSE 0) |-> start + i]
  IN IF n = 0
       THEN [tbody |-> Body("empty", <<>>), pager |-> NoPager, threw |-> FALSE]
       ELSE IF bads # {}
         THEN [tbody |-> Body("rows", drawn), pager |-> oldPager, threw |-> TRUE]
         ELSE [tbody |-> Body("rows", drawn),
               pager |-> [shown |-> TRUE, prev |-> (pg = 1),
                          next |-> (pg = TotalPages(v, n)),
                          x |-> pg, y |-> TotalPages(v, n)],
               threw |-> FALSE]

\* renderFutureSummary
renderFutureSummary(list) ==
  IF list = <<>> THEN [kind |-> "none", count |-> 0]
                 ELSE [kind |-> "count", count |-> Len(list)]

InitVw ==
  /\ vwInput = <<>>
  /\ vwNow = [v \in Views |-> 0]
  /\ dataFiltered = [v \in Views |-> <<>>]
  /\ page = [v \in Views |-> 1]
  /\ tbody = [v \in Views |-> Body("markup", <<>>)]
  /\ pager = [v \in Views |-> NoPager]
  /\ vwSummary = [kind |-> "markup", count |-> 0]
  /\ vwThrew = "none"
  /\ vwLastOp = "none"
  /\ vwLastView = "none"

IdleVw == InitVw

\* loadData, called once per page on DOMContentLoaded, hands data.history
\* to populateBetHistoryFiltered and then to populateFutureBets inside one
\* try block: when the first throws the second never runs.
PopulateViews ==
  \E history \in VwHistories, n1 \in Nows, n2 \in Nows :
    /\ vwLastOp = "none"
    /\ n2 >= n1
    /\ LET f1 == FilterWindow("history", history, n1)
           r1 == renderPage("history", f1, 1, pager["history"])
           f2 == FilterWindow("future", history, n2)
           r2 == renderPage("future", f2, 1, pager["future"])
       IN /\ vwInput' = history
          /\ IF r1.threw
               THEN /\ vwNow' = [vwNow EXCEPT !["history"] = n1]
                    /\ dataFiltered' = [dataFiltered EXCEPT !["history"] = f1]
                    /\ page' = [page EXCEPT !["history"] = 1]
                    /\ tbody' = [tbody EXCEPT !["history"] = r1.tbody]
                    /\ pager' = [pager EXCEPT !["history"] = r1.pager]
                    /\ vwSummary' = vwSummary
                    /\ vwThrew' = "history"
               ELSE /\ vwNow' = [history |-> n1, future |-> n2]
                    /\ dataFiltered' = [history |-> f1, future |-> f2]
                    /\ page' = [v \in Views |-> 1]
                    /\ tbody' = [history |-> r1.tbody, future |-> r2.tbody]
                    /\ pager' = [history |-> r1.pager, future |-> r2.pager]
                    /\ vwSummary' = IF r2.threw THEN vwSummary
                                                ELSE renderFutureSummary(f2)
                    /\ vwThrew' = IF r2.threw THEN "future" ELSE "none"
    /\ vwLastOp' = "load"
    /\ vwLastView' = "none"

\* The page after a step of d (-1: Prev, 1: Next) from the handlers
\* prevBtn.onclick / nextBtn.onclick; total is the totalPages the handler
\* closed over when the container was drawn.
StepPage(pg, d, total) ==
  IF d < 0 THEN (IF pg > 1 THEN pg - 1 ELSE pg)
           ELSE (IF pg < total THEN pg + 1 ELSE pg)

\* A click on Prev (d = -1) or Next (d = 1) of view v.  A disabled button
\* fires no click event; the handler redraws only when it moved the page.
ClickPager(v, d) ==
  /\ pager[v].shown
  /\ LET disabled == IF d < 0 THEN pager[v].prev ELSE pager[v].next
         pg == IF disabled THEN page[v] ELSE StepPage(page[v], d, pager[v].y)
         r  == renderPage(v, dataFiltered[v], pg, pager[v])
     IN IF pg = page[v]
          THEN /\ UNCHANGED <<page, tbody, pager>>
               /\ vwThrew' = "none"
          ELSE /\ page' = [page EXCEPT ![v] = pg]
               /\ tbody' = [tbody EXCEPT ![v] = r.tbody]
               /\ pager' = [pager EXCEPT ![v] = r.pager]
               /\ vwThrew' = IF r.threw THEN v ELSE "none"
  /\ vwLastOp' = IF d < 0 THEN "prev" ELSE "next"
  /\ vwLastView' = v
  /\ UNCHANGED <<vwInput, vwNow, dataFiltered, vwSummary>>

\* The browser reloads the page: the module state and the document start
\* over.
ReloadViews ==
  /\ vwLastOp # "none"
  /\ vwInput' = <<>>
  /\ vwNow' = [v \in Views |-> 0]
  /\ dataFiltered' = [v \in Views |-> <<>>]
  /\ page' = [v \in Views |-> 1]
  /\ tbody' = [v \in Views |-> Body("markup", <<>>)]
  /\ pager' = [v \in Views |-> NoPager]
  /\ vwSummary' = [kind |-> "markup", count |-> 0]
  /\ vwThrew' = "none"
  /\ vwLastOp' = "none"
  /\ vwLastView' = "none"

\* ------------------------------------------------------------------------
\* Pure helpers applied to one input at a time
\* ------------------------------------------------------------------------
VARIABLES
  fnOp,   \* the helper applied last ("none": none yet)
  fnIn,   \* its argument
  fnOut   \* its result

varsFn == <<fnOp, fnIn, fnOut>>

InitFn ==
  /\ fnOp = "none"
  /\ fnIn = <<>>
  /\ fnOut = <<>>

IdleFn == InitFn

\* Longest match label handed to makeBetId.
MaxFieldLen == 2

\* Characters of a field: inside and outside [a-zA-Z0-9_].
FieldChars == {"a", "Z", "7", "_", "@", " "}

LabelsUpTo(n) == UNION { [1..k -> FieldChars] : k \in 0..n }

\* The records makeBetId is called with; a missing field is Undef.
IdBets ==
  [sport      : {<<"n","b","a">>, Undef},
   match      : LabelsUpTo(MaxFieldLen) \cup {Undef},
   team       : {<<"t">>, <<"L",".","A">>, <<>>},
   market     : {<<"h","2","h">>, <<"+">>},
   event_time : {<<"1",":","0">>, <<"T">>, Undef}]

\* makeBetId(bet)
ApplyMakeBetId ==
  \E bet \in IdBets :
    /\ fnOp = "none"
    /\ fnOp' = "makeBetId"
    /\ fnIn' = bet
    /\ fnOut' = makeBetId(bet)

\* Numbers.  A finite number is the exact fraction n/d with d > 0; NotFinite
\* stands for every value Number.isFinite rejects (undefined, null, NaN, text).
Q(n, d) == [fin |-> TRUE, n |-> n, d |-> d]

NotFinite == [fin |-> FALSE, n |-> 0, d |-> 1]

\* Math.round(x): the integer nearest to x, a tie going up.
MathRound(x) == (2 * x.n + x.d) \div (2 * x.d)

\* Grid of the scores (steps of 0.05) and edges (steps of 0.005) tried.
MaxGrid == 24

ConfidenceArgs ==
  [score : {Q(50 * k, 1000) : k \in -MaxGrid..MaxGrid} \cup {NotFinite},
   edge  : {Q(5 * k, 1000) : k \in -MaxGrid..MaxGrid} \cup {NotFinite}]

\* computeConfidence(score, edge) of src/unnamed/part_001
computeConfidence(score, edge) ==
  LET s == IF score.fin THEN score ELSE Q(0, 1)
      e == IF edge.fin THEN edge ELSE Q(0, 1)
      sNorm == Q(10 * (4 * s.n - 3 * s.d), 4 * s.d)
      eNorm == Q(20 * e.n, e.d)
      mean == Q(sNorm.n * eNorm.d + eNorm.n * sNorm.d, 2 * sNorm.d * eNorm.d)
      c == IF mean.n < 0 THEN Q(0, 1)
           ELSE IF 2 * mean.n > 3 * mean.d THEN Q(3, 2)
           ELSE mean
      scaled == Q(c.d + 4 * c.n, c.d)
  IN MathRound(scaled)

ApplyComputeConfidence ==
  \E a \in ConfidenceArgs :
    /\ fnOp = "none"
    /\ fnOp' = "computeConfidence"
    /\ fnIn' = a
    /\ fnOut' = computeConfidence(a.score, a.edge)

\* Largest American odds tried, in absolute value.
MaxOdds == 150

\* A price as the JSON feed delivers it: missing, null, text that is not a
\* number, or the number v.
Prices ==
  {[kind |-> k, v |-> 0] : k \in {"undefined", "null", "text"}}
    \cup {[kind |-> "num", v |-> o] : o \in -MaxOdds..MaxOdds}

\* Number(raw): NaN for undefined and for text, 0 for null.
Number(raw) == IF raw.kind \in {"undefined", "text"} THEN NotFinite ELSE Q(raw.v, 1)

\* impliedProbability(odds) of src/unnamed/part_005; NotFinite is its null.
impliedProbability(odds) ==
  LET o == Number(odds)
  IN IF ~o.fin THEN NotFinite
     ELSE IF o.n < 0 THEN Q(-o.n, -o.n + 100 * o.d)
     ELSE Q(100 * o.d, o.n + 100 * o.d)

\* computeConfidence(pick) of src/unnamed/part_005
computeConfidencePct(pick) ==
  LET latestProb == impliedProbability(pick.price)
  IN IF ~latestProb.fin \/ latestProb.n = 0 THEN 50
     ELSE MathRound(Q(100 * latestProb.n, latestProb.d))

ApplyComputeConfidencePct ==
  \E price \in Prices :
    /\ fnOp = "none"
    /\ fnOp' = "computeConfidencePct"
    /\ fnIn' = [price |-> price]
    /\ fnOut' = computeConfidencePct([price |-> price])

\* The odds handed to the converters of src/unnamed/part_001: whole and half
\* numbers up to MaxOdds in absolute value, and a non-finite value.
OddsArgs == {Q(o, d) : o \in -MaxOdds..MaxOdds, d \in {1, 2}} \cup {NotFinite}

\* americanToDecimal(odds); NotFinite is its null.
americanToDecimal(odds) ==
  IF ~odds.fin \/ odds.n = 0 THEN NotFinite
  ELSE IF odds.n > 0 THEN Q(100 * odds.d + odds.n, 100 * odds.d)
  ELSE Q(-odds.n + 100 * odds.d, -odds.n)

\* A mutant of impliedProbFromAmerican whose favourite branch divides 100,
\* not |odds|.
impliedProbFromAmericanFlat(odds) ==
  IF ~odds.fin \/ odds.n = 0 THEN Q(0, 1)
  ELSE IF odds.n > 0 THEN Q(100 * odds.d, odds.n + 100 * odds.d)
  ELSE Q(100 * odds.d, -odds.n + 100 * odds.d)

\* impliedProbFromAmerican(odds)
impliedProbFromAmerican(odds) ==
  IF ~odds.fin \/ odds.n = 0 THEN Q(0, 1)
  ELSE IF odds.n > 0 THEN Q(100 * odds.d, odds.n + 100 * odds.d)
  ELSE Q(-odds.n, -odds.n + 100 * odds.d)

ApplyOdds ==
  \E odds \in OddsArgs :
    /\ fnOp = "none"
    /\ fnOp' = "odds"
    /\ fnIn' = odds
    /\ fnOut' = [decimal |-> americanToDecimal(odds),
                 implied |-> impliedProbFromAmerican(odds)]

\* toNumber(v): Number(v) when finite, else the fallback 0.
toNumber(raw) == IF Number(raw).fin THEN Number(raw) ELSE Q(0, 1)

\* Formatted text: the placeholder, or a number printed with a fixed count
\* of decimals (val is the number scaled by that power of ten).
Dash == [dash |-> TRUE, val |-> 0, digits |-> 0]

\* x.toFixed(digits)
toFixed(x, digits) ==
  LET scale == IF digits = 1 THEN 10 ELSE IF digits = 2 THEN 100 ELSE 1000
      m == x.n * scale
  IN [dash |-> FALSE,
      val |-> IF m >= 0 THEN (2 * m + x.d) \div (2 * x.d)
              ELSE 0 - ((2 * (0 - m) + x.d) \div (2 * x.d)),
      digits |-> digits]

\* formatPct(x)
formatPct(x) == IF ~x.fin THEN Dash ELSE toFixed(Q(100 * x.n, x.d), 1)

\* A win probability as the JSON feed delivers it: missing, null, text that
\* is not a number, the empty string, or the number q.
WinProbs ==
  {[kind |-> k, q |-> Q(0, 1)] : k \in {"undefined", "null", "text", "empty"}}
    \cup {[kind |-> "num", q |-> q] : q \in {Q(11, 20), Q(3, 10)}}

\* The number a raw value is coerced to by the global isFinite and by
\* arithmetic: 0 for null and for the empty string, NaN for undefined and
\* for other text.
Coerce(raw) ==
  IF raw.kind = "num" THEN raw.q
  ELSE IF raw.kind \in {"null", "empty"} THEN Q(0, 1)
  ELSE NotFinite

\* The feed enrichData receives: one pick or one open bet.  score is a
\* number or missing; bet_amount is a price-like raw value.
FeedData ==
  {[todays_picks |-> <<[odds |-> o, win_probability |-> w, score |-> s,
                         sport |-> <<"A">>, event |-> <<"E">>]>>,
    open_bets |-> <<>>] :
      o \in Prices, w \in WinProbs, s \in {NotFinite, Q(9, 10)}}
    \cup
  {[todays_picks |-> <<>>,
    open_bets |-> <<[odds |-> o, bet_amount |-> a, sport |-> <<"A">>, market |-> <<"h","2","h">>]>>] :
      o \in Prices, a \in {[kind |-> "undefined", v |-> 0], [kind |-> "num", v |-> 10]}}

\* Longest list of open bets whose exposure is rolled up.
MaxOpen == 3

\* Open bets for the exposure rollup: the stake missing or one of three
\* amounts; the sport and the market missing (Undef) or present.
ExposureBets ==
  [odds : {[kind |-> "num", v |-> -150]},
   bet_amount : {[kind |-> "undefined", v |-> 0]}
                  \cup {[kind |-> "num", v |-> a] : a \in {10, 15, 25}},
   sport : {<<"A">>, <<"B">>, Undef},
   market : {<<"h","2","h">>, Undef}]

ExposureFeeds ==
  {[todays_picks |-> <<>>, open_bets |-> open] :
      open \in UNION {[1..n -> ExposureBets] : n \in 0..MaxOpen}}

\* Longest list of picks that is grouped.
MaxGrouped == 3

\* Picks for the grouping: the sport and the event label missing (Undef) or
\* a text that may hold the underscore.
GroupFeeds ==
  {[todays_picks |-> picks, open_bets |-> <<>>] :
      picks \in UNION {[1..n -> [odds : {[kind |-> "num", v |-> -150]},
                                 win_probability : {[kind |-> "num", q |-> Q(11, 20)]},
                                 score : {Q(9, 10)},
                                 sport : {<<"a">>, <<"a","_">>, Undef},
                                 event : {<<"b">>, <<"_","b">>, Undef}]] : n \in 0..MaxGrouped}}

\* a + b
QAdd(a, b) == Q(a.n * b.d + b.n * a.d, a.d * b.d)

\* A mutant of AddTo that stores the amount in place of the sum.
AddToOverwrite(mix, key, amount) ==
  [k \in DOMAIN mix \cup {key} |-> IF k = key THEN amount ELSE mix[k]]

\* mix[key] = (mix[key] || 0) + amount
AddTo(mix, key, amount) ==
  [k \in DOMAIN mix \cup {key} |->
     IF k # key THEN mix[k]
     ELSE QAdd(IF k \in DOMAIN mix THEN mix[k] ELSE Q(0, 1), amount)]

\* enrichData(data): the derived fields attached to each pick and open bet,
\* the pick groups in the order their keys were first seen (a group lists
\* its member picks by their position in todays_picks), and the exposure
\* rollups.
enrichData(data) ==
  LET enrichPick(p) ==
        LET oddsNum == toNumber(p.odds)
            dec == americanToDecimal(oddsNum)
            implied == impliedProbFromAmerican(oddsNum)
            winProb == Coerce(p.win_probability)
            priced == /\ winProb.fin /\ p.win_probability.kind # "null"
                      /\ dec.fin /\ dec.n > dec.d
            edge == IF priced
                    THEN Q(winProb.n * implied.d - implied.n * winProb.d,
                           winProb.d * implied.d)
                    ELSE NotFinite
            evUnits == IF priced
                       THEN Q(winProb.n * (dec.n - dec.d) - (winProb.d - winProb.n) * dec.d,
                              winProb.d * dec.d)
                       ELSE NotFinite
        IN [odds |-> p.odds, win_probability |-> p.win_probability, score |-> p.score,
            sport |-> p.sport, event |-> p.event,
            decimal_odds |-> dec, implied_prob |-> implied, edge |-> edge,
            ev_units |-> evUnits, confidence |-> computeConfidence(p.score, edge)]
      enrichBet(b) ==
        LET stake == toNumber(b.bet_amount)
            dec == americanToDecimal(toNumber(b.odds))
            implied == impliedProbFromAmerican(toNumber(b.odds))
        IN [odds |-> b.odds, bet_amount |-> b.bet_amount,
            sport |-> b.sport, market |-> b.market,
            decimal_odds |-> dec, implied_prob |-> implied,
            potential_payout |-> IF dec.fin /\ dec.n > 0
                                 THEN Q(stake.n * dec.n, stake.d * dec.d)
                                 ELSE NotFinite]
      RECURSIVE groupUp(_, _)
      groupUp(i, pickGroups) ==
        IF i > Len(data.todays_picks) THEN pickGroups
        ELSE LET p == data.todays_picks[i]
                 sport == IF Truthy(p.sport) THEN p.sport
                          ELSE <<"u","n","k","n","o","w","n">>
                 event == IF Truthy(p.event) THEN p.event
                          ELSE <<"U","n","k","n","o","w","n"," ","E","v","e","n","t">>
                 key == sport \o <<"_","_">> \o event
                 at == {g \in DOMAIN pickGroups : pickGroups[g].key = key}
             IN groupUp(i + 1,
                  IF at = {}
                    THEN Append(pickGroups,
                                [key |-> key, sport |-> sport, event |-> event, picks |-> <<i>>])
                  ELSE [g \in DOMAIN pickGroups |->
                          IF g \in at
                            THEN [pickGroups[g] EXCEPT !.picks = Append(@, i)]
                          ELSE pickGroups[g]])
      RECURSIVE rollUp(_, _)
      rollUp(i, acc) ==
        IF i > Len(data.open_bets) THEN acc
        ELSE LET b == data.open_bets[i]
                 stake == toNumber(b.bet_amount)
                 sportKey == IF Truthy(b.sport) THEN b.sport
                             ELSE <<"u","n","k","n","o","w","n">>
                 mktKey == IF Truthy(b.market) THEN b.market
                           ELSE <<"o","t","h","e","r">>
             IN rollUp(i + 1,
                       [totalStakeOpen |-> QAdd(acc.totalStakeOpen, stake),
                        sportRisk |-> AddTo(acc.sportRisk, sportKey, stake),
                        marketMix |-> AddTo(acc.marketMix, mktKey, Q(1, 1))])
      totals == rollUp(1, [totalStakeOpen |-> Q(0, 1), sportRisk |-> <<>>, marketMix |-> <<>>])
  IN [todays_picks |-> [i \in DOMAIN data.todays_picks |-> enrichPick(data.todays_picks[i])],
      open_bets |-> [i \in DOMAIN data.open_bets |-> enrichBet(data.open_bets[i])],
      pick_groups |-> groupUp(1, <<>>),
      total_stake_open |-> totals.totalStakeOpen,
      sport_risk |-> totals.sportRisk,
      market_mix |-> totals.marketMix]

\* renderPickRow(p): p.score.toFixed(4) throws when the score is missing.
renderPickRow(p) ==
  [threw |-> ~p.score.fin,
   stars |-> IF p.confidence = 0 THEN 1 ELSE p.confidence,
   implied |-> formatPct(p.implied_prob),
   edge |-> formatPct(p.edge),
   ev |-> IF p.ev_units.fin THEN toFixed(p.ev_units, 3) ELSE Dash]

\* The table row of an open bet.
renderOpenBetRow(r) ==
  [implied |-> formatPct(r.implied_prob),
   payout |-> IF r.potential_payout.fin THEN toFixed(r.potential_payout, 2) ELSE Dash]

\* loadData: enrichData(raw), then the picks tab and the open-bet table.
ApplyEnrichData(feeds) ==
  /\ fnOp = "none"
  /\ \E raw \in feeds :
       /\ fnOp' = "enrichData"
       /\ fnIn' = raw
       /\ fnOut' = LET data == enrichData(raw)
                   IN [data |-> data,
                       pickRows |-> [i \in DOMAIN data.todays_picks |-> renderPickRow(data.todays_picks[i])],
                       openRows |-> [i \in DOMAIN data.open_bets |-> renderOpenBetRow(data.open_bets[i])]]

\* Longest pick list a response of fetchAndRenderPicks carries.
MaxPicks == 2

\* What fetch('smartpicks-site/data/data.json') delivers to
\* fetchAndRenderPicks of src/unnamed/part_002: a non-2xx status, a body
\* that is not JSON, or a JSON body.  The body is the bare pick array, an
\* object holding the array under picks, data or top10, an object keyed by
\* pick ("keyed"), or null; extra: the object has one more field, a text.
\* A field a pick lacks is "#undefined".
PicksResponses ==
  LET Picks == [kind : {"pick"},
                team : {"Lakers", "Celtics", "#undefined"},
                price : {"-110", "150", "#undefined"}]
      Lists == UNION {[1..n -> Picks] : n \in 0..MaxPicks}
  IN {[status |-> s, shape |-> "null", list |-> <<>>, extra |-> FALSE] :
        s \in {"ok", "http_error", "bad_json"}}
       \cup {[status |-> "ok", shape |-> "array", list |-> l, extra |-> FALSE] : l \in Lists}
       \cup {[status |-> "ok", shape |-> sh, list |-> l, extra |-> e] :
               sh \in {"picks", "data", "top10", "keyed"}, l \in Lists, e \in BOOLEAN}

\* dataArray as the adapter leaves it: [isArray, items].  An item that is
\* not a pick object (an array, a text) has no team and no price.
dataArray(rawData) ==
  LET other(kind) == [kind |-> kind, team |-> "#undefined", price |-> "#undefined"]
      rest == IF rawData.extra THEN <<other("text")>> ELSE <<>>
  IN IF rawData.shape = "null" THEN [isArray |-> FALSE, items |-> <<>>]
     ELSE IF rawData.shape \in {"array", "picks", "data"}
       THEN [isArray |-> TRUE, items |-> rawData.list]
     ELSE IF rawData.shape = "top10"
       THEN [isArray |-> TRUE, items |-> <<other("array")>> \o rest]
     ELSE [isArray |-> TRUE, items |-> rawData.list \o rest]

\* fetchAndRenderPicks: the state of #loading-message and of #picks after
\* the call.  `${v}` prints a missing field as the text "undefined".
fetchAndRenderPicks(response) ==
  LET data == dataArray(response)
      show(v) == IF v = "#undefined" THEN "undefined" ELSE v
  IN IF response.status # "ok"
       THEN [loading |-> "none", container |-> "error", picks |-> <<>>]
     ELSE IF ~data.isArray \/ data.items = <<>>
       THEN [loading |-> "none", container |-> "info", picks |-> <<>>]
     ELSE [loading |-> "none", container |-> "picks",
           picks |-> [i \in DOMAIN data.items |->
                        [team |-> show(data.items[i].team),
                         price |-> show(data.items[i].price)]]]

ApplyFetchAndRenderPicks ==
  /\ fnOp = "none"
  /\ \E response \in PicksResponses :
       /\ fnOp' = "fetchAndRenderPicks"
       /\ fnIn' = response
       /\ fnOut' = fetchAndRenderPicks(response)

\* ------------------------------------------------------------------------
\* Remote grading client (renderGrader of src/unnamed/part_010)
\* ------------------------------------------------------------------------
VARIABLES
  grRows,    \* per rendered row of #grader-root: the bet and its data-id
  grReq,     \* the POST requests in flight, in the order they were issued
  grOkSeen,  \* responses received so far that parsed to status "ok"
  grFailed,  \* requests so far that failed or were answered otherwise
  grClicks,  \* clicks on grade buttons so far
  grPosts,   \* POST requests issued so far
  grAlerts,  \* alerts shown so far
  grReloads  \* page reloads triggered so far

varsGr == <<grRows, grReq, grOkSeen, grFailed, grClicks, grPosts, grAlerts, grReloads>>

\* Clicks on grade buttons in one run.
MaxClicks == 2

\* Open bets as renderGrader reads them: bet_id and betId may be missing
\* (Undef) or empty.
GrBet(id, camel) ==
  [bet_id |-> id, betId |-> camel, sport |-> <<"n","b","a">>,
   match |-> <<"a","@","b">>, team |-> <<"t">>, market |-> <<"h","2","h">>,
   event_time |-> <<"1",":","0">>]

GrBets ==
  { GrBet(Undef, Undef), GrBet(<<"x","1">>, <<"y">>), GrBet(<<"a","\"","b">>, Undef) }

\* The lists of open bets handed to renderGrader: none, one or two bets.
GrLists == UNION { [1..n -> GrBets] : n \in 0..2 }

\* bet.bet_id || bet.betId || ""
GraderId(bet) ==
  IF Truthy(bet.bet_id) THEN bet.bet_id
  ELSE IF Truthy(bet.betId) THEN bet.betId ELSE <<>>

\* The value getAttribute("data-id") reads back from the markup
\* data-id="${id}": the text up to the first double quote.
RECURSIVE AttrValue(_)
AttrValue(id) ==
  IF id = <<>> \/ Head(id) = "\"" THEN <<>> ELSE <<Head(id)>> \o AttrValue(Tail(id))

Outcomes == {"win", "loss", "push"}

\* How the POST settles: a JSON body with status "ok"; a JSON body with
\* another status; the JSON body null; a body that is not JSON; the
\* request rejects.
GradeResponses == {"ok", "error", "null", "bad_json", "network"}

\* A mutant of ReloadsOn that reloads on every response that parsed to an
\* object.
ReloadsOnParsed(resp) == resp \in {"ok", "error"}

\* if (resp.status === "ok")
ReloadsOn(resp) == resp = "ok"

InitGr ==
  /\ grRows = <<>>
  /\ grReq = <<>>
  /\ grOkSeen = 0
  /\ grFailed = 0
  /\ grClicks = 0
  /\ grPosts = 0
  /\ grAlerts = 0
  /\ grReloads = 0

IdleGr == InitGr

\* renderGrader(openBets), called by fetchLiveScores at startup and every
\* 60 seconds: the table is rebuilt, with three buttons per bet.
renderGrader ==
  \E openBets \in GrLists :
    /\ grRows' = [i \in 1..Len(openBets) |->
                    [bet |-> openBets[i], dataId |-> AttrValue(GraderId(openBets[i]))]]
    /\ UNCHANGED <<grReq, grOkSeen, grFailed, grClicks, grPosts, grAlerts, grReloads>>

\* A click on the button of row i for outcome o: one fetch(POST) whose
\* body holds the button's data-id and data-outcome.
ClickGrade(i, o) ==
  /\ grClicks < MaxClicks
  /\ i \in 1..Len(grRows)
  /\ grClicks' = grClicks + 1
  /\ grPosts' = grPosts + 1
  /\ grReq' = Append(grReq, [bet |-> grRows[i].bet, bet_id |-> grRows[i].dataId,
                             outcome |-> o])
  /\ UNCHANGED <<grRows, grOkSeen, grFailed, grAlerts, grReloads>>

\* The POST of request k settles with resp.  Status "ok": an alert, then
\* window.location.reload(), which discards the page and the requests it
\* still had in flight.  Anything else: an alert (from the else branch,
\* or from the catch for a rejected request, an unparseable body or the
\* TypeError on null.status) and nothing more.
GradeSettles(k, resp) ==
  /\ k \in 1..Len(grReq)
  /\ grAlerts' = grAlerts + 1
  /\ grOkSeen' = IF resp = "ok" THEN grOkSeen + 1 ELSE grOkSeen
  /\ grFailed' = IF resp = "ok" THEN grFailed ELSE grFailed + 1
  /\ IF ReloadsOn(resp)
       THEN /\ grReq' = <<>>
            /\ grReloads' = grReloads + 1
            /\ grRows' = <<>>
       ELSE /\ grReq' = [j \in 1..(Len(grReq) - 1) |->
                           IF j < k THEN grReq[j] ELSE grReq[j + 1]]
            /\ UNCHANGED <<grReloads, grRows>>
  /\ UNCHANGED <<grClicks, grPosts>>

\* ------------------------------------------------------------------------
\* Loading / content / error dashboard (src/unnamed/part_014)
\* ------------------------------------------------------------------------
VARIABLES
  lcPhase,         \* "idle", "fetching" (loadData awaits) or "done"
  lcHidden,        \* region -> TRUE when it carries the class hidden
  appData,         \* [isNull, body]: the module variable appData
  filteredHistory, \* the module variable filteredHistory
  lcRendered,      \* the sections renderAll has filled
  lcThrew,         \* TRUE when the last handler threw
  statusFilter,    \* value of #status-filter
  limitSelect      \* value of #limit-select (0: all)

varsLc == <<lcPhase, lcHidden, appData, filteredHistory, lcRendered, lcThrew,
            statusFilter, limitSelect>>

\* Longest bet_history array a body carries.
MaxBetHistory == 2

\* The JSON bodies loadData may parse.  generated_at and overall_performance
\* are present or not; today is "missing" (no today_picks), "empty", "ok" or
\* "bad" (picks without today_summary, or a pick without ev); bet_history
\* is present or not, its rows carry a status and a timestamp.
LcBodies ==
  [generated_at : BOOLEAN,
   overall_performance : BOOLEAN,
   today : {"missing", "empty", "ok", "bad"},
   has_history : BOOLEAN,
   bet_history : UNION {[1..n -> [status : {"won", "pending"}, timestamp : {1, 2}]] :
                          n \in 0..MaxBetHistory}]

NoBody ==
  [generated_at |-> FALSE, overall_performance |-> FALSE, today |-> "missing",
   has_history |-> FALSE, bet_history |-> <<>>]

\* filtered.sort((a, b) => new Date(b.timestamp) - new Date(a.timestamp)):
\* most recent first, rows of equal timestamp keeping their order.
RECURSIVE SortRecentFirst(_)
SortRecentFirst(s) ==
  IF s = <<>> THEN <<>>
  ELSE LET last == s[Len(s)]
           front == SortRecentFirst(SubSeq(s, 1, Len(s) - 1))
       IN SelectSeq(front, LAMBDA r : r.timestamp >= last.timestamp)
            \o <<last>>
            \o SelectSeq(front, LAMBDA r : r.timestamp < last.timestamp)

\* filterHistory() on the body: [threw, body, filtered].  With the filter
\* 'all' the sort runs on appData.bet_history itself.
filterHistory(body, status, limit) ==
  IF ~body.has_history THEN [threw |-> TRUE, body |-> body, filtered |-> <<>>]
  ELSE LET picked == IF status = "all" THEN body.bet_history
                     ELSE SelectSeq(body.bet_history, LAMBDA r : r.status = status)
           sorted == SortRecentFirst(picked)
           cut == IF limit = 0 \/ limit >= Len(sorted) THEN sorted
                  ELSE SubSeq(sorted, 1, limit)
       IN [threw |-> FALSE,
           body |-> IF status = "all" THEN [body EXCEPT !.bet_history = sorted] ELSE body,
           filtered |-> cut]

\* renderAll(): the renderers run in order and the first one that throws
\* ends the call: [threw, rendered, body, filtered].
renderAll(body, status, limit, oldFiltered) ==
  LET hist == filterHistory(body, status, limit)
      updated == IF body.generated_at THEN {"last-updated"} ELSE {}
  IN IF ~body.overall_performance
       THEN [threw |-> TRUE, rendered |-> updated, body |-> body, filtered |-> oldFiltered]
     ELSE IF body.today \in {"missing", "bad"}
       THEN [threw |-> TRUE, rendered |-> updated \cup {"performance"},
             body |-> body, filtered |-> oldFiltered]
     ELSE IF hist.threw
       THEN [threw |-> TRUE, rendered |-> updated \cup {"performance", "today"},
             body |-> body, filtered |-> oldFiltered]
     ELSE [threw |-> FALSE, rendered |-> updated \cup {"performance", "today", "history"},
           body |-> hist.body, filtered |-> hist.filtered]

\* DOMContentLoaded has run: loadData() has called showLoading() and awaits
\* the fetch.
InitLc ==
  /\ lcPhase = "fetching"
  /\ lcHidden = [loading |-> FALSE, main |-> TRUE, error |-> TRUE]
  /\ appData = [isNull |-> TRUE, body |-> NoBody]
  /\ filteredHistory = <<>>
  /\ lcRendered = {}
  /\ lcThrew = FALSE
  /\ statusFilter = "all"
  /\ limitSelect = 0

IdleLc ==
  /\ lcPhase = "idle"
  /\ lcHidden = [loading |-> FALSE, main |-> TRUE, error |-> TRUE]
  /\ appData = [isNull |-> TRUE, body |-> NoBody]
  /\ filteredHistory = <<>>
  /\ lcRendered = {}
  /\ lcThrew = FALSE
  /\ statusFilter = "all"
  /\ limitSelect = 0

\* The fetch rejects, the status is not 2xx or the body is not JSON: the
\* catch block calls showError().
LoadDataFails ==
  /\ lcPhase = "fetching"
  /\ lcPhase' = "done"
  /\ lcHidden' = [lcHidden EXCEPT !.loading = TRUE, !.error = FALSE]
  /\ lcThrew' = FALSE
  /\ UNCHANGED <<appData, filteredHistory, lcRendered, statusFilter, limitSelect>>

\* The body is parsed: hideLoading(), showContent(), renderAll(); a renderer
\* that throws lands in the catch block, which calls showError().
LoadDataParses ==
  /\ lcPhase = "fetching"
  /\ \E body \in LcBodies :
       LET r == renderAll(body, statusFilter, limitSelect, filteredHistory)
       IN /\ appData' = [isNull |-> FALSE, body |-> r.body]
          /\ filteredHistory' = r.filtered
          /\ lcRendered' = r.rendered
          /\ lcHidden' = [loading |-> TRUE, main |-> FALSE,
                          error |-> IF r.threw THEN FALSE ELSE lcHidden.error]
  /\ lcPhase' = "done"
  /\ lcThrew' = FALSE
  /\ UNCHANGED <<statusFilter, limitSelect>>

\* A change event on one of the two selects, which are part of the main
\* content: filterHistory().
ChangeFilter ==
  /\ lcPhase = "done"
  /\ ~lcHidden.main
  /\ ~appData.isNull
  /\ \E status \in {"all", "won", "lost", "pending"}, limit \in {0, 1} :
       LET r == filterHistory(appData.body, status, limit)
       IN /\ <<status, limit>> # <<statusFilter, limitSelect>>
          /\ statusFilter' = status
          /\ limitSelect' = limit
          /\ lcThrew' = r.threw
          /\ appData' = [appData EXCEPT !.body = r.body]
          /\ filteredHistory' = IF r.threw THEN filteredHistory ELSE r.filtered
          /\ lcRendered' = IF r.threw THEN lcRendered ELSE lcRendered \cup {"history"}
  /\ UNCHANGED <<lcPhase, lcHidden>>

\* ------------------------------------------------------------------------
\* Specifications: one per group of variants
\* ------------------------------------------------------------------------
vars == <<varsOv, varsTab, varsLd, varsLa, varsTk, varsCh, varsVw, varsFn, varsGr, varsLc>>

InitOverrides == InitOv /\ IdleTab /\ IdleLd /\ IdleLa /\ IdleTk /\ IdleCh /\ IdleVw /\ IdleFn /\ IdleGr /\ IdleLc
NextOverrides ==
  \/ Reload /\ UNCHANGED <<varsTab, varsLd, varsLa, varsTk, varsCh, varsVw, varsFn, varsGr, varsLc>>
  \/ LoadFailed /\ UNCHANGED <<varsTab, varsLd, varsLa, varsTk, varsCh, varsVw, varsFn, varsGr, varsLc>>
  \/ LoadDone /\ UNCHANGED <<varsTab, varsLd, varsLa, varsTk, varsCh, varsVw, varsFn, varsGr, varsLc>>
  \/ setManual /\ UNCHANGED <<varsTab, varsLd, varsLa, varsTk, varsCh, varsVw, varsFn, varsGr, varsLc>>
  \/ downloadOverrides /\ UNCHANGED <<varsTab, varsLd, varsLa, varsTk, varsCh, varsVw, varsFn, varsGr, varsLc>>
SpecOverrides == InitOverrides /\ [][NextOverrides]_vars

\* The override store with the graded bets recorded.
NextManual ==
  \/ Reload /\ UNCHANGED <<varsTab, varsLd, varsLa, varsTk, varsCh, varsVw, varsFn, varsGr, varsLc>>
  \/ LoadFailed /\ UNCHANGED <<varsTab, varsLd, varsLa, varsTk, varsCh, varsVw, varsFn, varsGr, varsLc>>
  \/ LoadDone /\ UNCHANGED <<varsTab, varsLd, varsLa, varsTk, varsCh, varsVw, varsFn, varsGr, varsLc>>
  \/ setManualRecorded /\ UNCHANGED <<varsTab, varsLd, varsLa, varsTk, varsCh, varsVw, varsFn, varsGr, varsLc>>
  \/ downloadOverrides /\ UNCHANGED <<varsTab, varsLd, varsLa, varsTk, varsCh, varsVw, varsFn, varsGr, varsLc>>
SpecManual == InitOverrides /\ [][NextManual]_vars

InitTabs == IdleOv /\ InitTab /\ IdleLd /\ IdleLa /\ IdleTk /\ IdleCh /\ IdleVw /\ IdleFn /\ IdleGr /\ IdleLc
NextTabs ==
  \/ (\E t \in Triggers : ClickTabsJs(t)) /\ UNCHANGED <<varsOv, varsLd, varsLa, varsTk, varsCh, varsVw, varsFn, varsGr, varsLc>>
  \/ (\E t \in Triggers : ClickAppJs(t)) /\ UNCHANGED <<varsOv, varsLd, varsLa, varsTk, varsCh, varsVw, varsFn, varsGr, varsLc>>
  \/ (\E t \in Triggers : ClickPart000(t)) /\ UNCHANGED <<varsOv, varsLd, varsLa, varsTk, varsCh, varsVw, varsFn, varsGr, varsLc>>
  \/ (\E t \in Triggers : ClickPart011(t)) /\ UNCHANGED <<varsOv, varsLd, varsLa, varsTk, varsCh, varsVw, varsFn, varsGr, varsLc>>
SpecTabs == InitTabs /\ [][NextTabs]_vars

InitLoaders == IdleOv /\ IdleTab /\ InitLd /\ IdleLa /\ IdleTk /\ IdleCh /\ IdleVw /\ IdleFn /\ IdleGr /\ IdleLc
NextLoaders ==
  \/ FetchFails /\ UNCHANGED <<varsOv, varsTab, varsLa, varsTk, varsCh, varsVw, varsFn, varsGr, varsLc>>
  \/ FetchParses /\ UNCHANGED <<varsOv, varsTab, varsLa, varsTk, varsCh, varsVw, varsFn, varsGr, varsLc>>
  \/ RenderStep /\ UNCHANGED <<varsOv, varsTab, varsLa, varsTk, varsCh, varsVw, varsFn, varsGr, varsLc>>
  \/ RefreshTick /\ UNCHANGED <<varsOv, varsTab, varsLa, varsTk, varsCh, varsVw, varsFn, varsGr, varsLc>>
SpecLoaders == InitLoaders /\ [][NextLoaders]_vars

InitLoadAll == IdleOv /\ IdleTab /\ IdleLd /\ InitLa /\ IdleTk /\ IdleCh /\ IdleVw /\ IdleFn /\ IdleGr /\ IdleLc
TickStep == LoadAllTick /\ UNCHANGED <<varsOv, varsTab, varsLd, varsTk, varsCh, varsVw, varsFn, varsGr, varsLc>>
DataStep ==
  (\E c \in Cycles : DataSettles(c)) /\ UNCHANGED <<varsOv, varsTab, varsLd, varsTk, varsCh, varsVw, varsFn, varsGr, varsLc>>
ScoresStep ==
  (\E c \in Cycles : ScoresSettles(c)) /\ UNCHANGED <<varsOv, varsTab, varsLd, varsTk, varsCh, varsVw, varsFn, varsGr, varsLc>>
NextLoadAll == TickStep \/ DataStep \/ ScoresStep
SpecLoadAll == InitLoadAll /\ [][NextLoadAll]_vars

\* The timer fires and the server answers every data.json request; nothing
\* is assumed of the scores.json requests.
SpecLoadAllLive == SpecLoadAll /\ WF_vars(TickStep) /\ WF_vars(DataStep)

InitTicker == IdleOv /\ IdleTab /\ IdleLd /\ IdleLa /\ InitTk /\ IdleCh /\ IdleVw /\ IdleFn /\ IdleGr /\ IdleLc
NextTicker ==
  \/ TickerReload000 /\ UNCHANGED <<varsOv, varsTab, varsLd, varsLa, varsCh, varsVw, varsFn, varsGr, varsLc>>
  \/ (\E r \in Refreshes : ScoresSettle000(r)) /\ UNCHANGED <<varsOv, varsTab, varsLd, varsLa, varsCh, varsVw, varsFn, varsGr, varsLc>>
  \/ TickerTick010 /\ UNCHANGED <<varsOv, varsTab, varsLd, varsLa, varsCh, varsVw, varsFn, varsGr, varsLc>>
  \/ (\E r \in Refreshes : DataSettle010(r)) /\ UNCHANGED <<varsOv, varsTab, varsLd, varsLa, varsCh, varsVw, varsFn, varsGr, varsLc>>
  \/ (\E r \in Refreshes : SportSettle010(r)) /\ UNCHANGED <<varsOv, varsTab, varsLd, varsLa, varsCh, varsVw, varsFn, varsGr, varsLc>>
SpecTicker == InitTicker /\ [][NextTicker]_vars

InitCharts == IdleOv /\ IdleTab /\ IdleLd /\ IdleLa /\ IdleTk /\ InitCh /\ IdleVw /\ IdleFn /\ IdleGr /\ IdleLc
NextCharts == RenderAnalytics /\ UNCHANGED <<varsOv, varsTab, varsLd, varsLa, varsTk, varsVw, varsFn, varsGr, varsLc>>
SpecCharts == InitCharts /\ [][NextCharts]_vars

InitViews == IdleOv /\ IdleTab /\ IdleLd /\ IdleLa /\ IdleTk /\ IdleCh /\ InitVw /\ IdleFn /\ IdleGr /\ IdleLc
NextViews ==
  \/ PopulateViews /\ UNCHANGED <<varsOv, varsTab, varsLd, varsLa, varsTk, varsCh, varsFn, varsGr, varsLc>>
  \/ ReloadViews /\ UNCHANGED <<varsOv, varsTab, varsLd, varsLa, varsTk, varsCh, varsFn, varsGr, varsLc>>
  \/ (\E v \in Views : ClickPager(v, -1)) /\ UNCHANGED <<varsOv, varsTab, varsLd, varsLa, varsTk, varsCh, varsFn, varsGr, varsLc>>
  \/ (\E v \in Views : ClickPager(v, 1)) /\ UNCHANGED <<varsOv, varsTab, varsLd, varsLa, varsTk, varsCh, varsFn, varsGr, varsLc>>
SpecViews == InitViews /\ [][NextViews]_vars

InitBetId == IdleOv /\ IdleTab /\ IdleLd /\ IdleLa /\ IdleTk /\ IdleCh /\ IdleVw /\ InitFn /\ IdleGr /\ IdleLc
NextBetId ==
  \/ ApplyMakeBetId /\ UNCHANGED <<varsOv, varsTab, varsLd, varsLa, varsTk, varsCh, varsVw, varsGr, varsLc>>
SpecBetId == InitBetId /\ [][NextBetId]_vars

InitGrader == IdleOv /\ IdleTab /\ IdleLd /\ IdleLa /\ IdleTk /\ IdleCh /\ IdleVw /\ IdleFn /\ InitGr /\ IdleLc
NextGrader ==
  \/ renderGrader /\ UNCHANGED <<varsOv, varsTab, varsLd, varsLa, varsTk, varsCh, varsVw, varsFn, varsLc>>
  \/ (\E i \in 1..2, o \in Outcomes : ClickGrade(i, o)) /\ UNCHANGED <<varsOv, varsTab, varsLd, varsLa, varsTk, varsCh, varsVw, varsFn, varsLc>>
  \/ (\E k \in 1..MaxClicks, resp \in GradeResponses : GradeSettles(k, resp)) /\ UNCHANGED <<varsOv, varsTab, varsLd, varsLa, varsTk, varsCh, varsVw, varsFn, varsLc>>
SpecGrader == InitGrader /\ [][NextGrader]_vars

InitConfidence == IdleOv /\ IdleTab /\ IdleLd /\ IdleLa /\ IdleTk /\ IdleCh /\ IdleVw /\ InitFn /\ IdleGr /\ IdleLc
NextConfidence ==
  \/ ApplyComputeConfidence /\ UNCHANGED <<varsOv, varsTab, varsLd, varsLa, varsTk, varsCh, varsVw, varsGr, varsLc>>
SpecConfidence == InitConfidence /\ [][NextConfidence]_vars

InitConfidencePct == IdleOv /\ IdleTab /\ IdleLd /\ IdleLa /\ IdleTk /\ IdleCh /\ IdleVw /\ InitFn /\ IdleGr /\ IdleLc
NextConfidencePct ==
  \/ ApplyComputeConfidencePct /\ UNCHANGED <<varsOv, varsTab, varsLd, varsLa, varsTk, varsCh, varsVw, varsGr, varsLc>>
SpecConfidencePct == InitConfidencePct /\ [][NextConfidencePct]_vars

InitOdds == IdleOv /\ IdleTab /\ IdleLd /\ IdleLa /\ IdleTk /\ IdleCh /\ IdleVw /\ InitFn /\ IdleGr /\ IdleLc
NextOdds ==
  \/ ApplyOdds /\ UNCHANGED <<varsOv, varsTab, varsLd, varsLa, varsTk, varsCh, varsVw, varsGr, varsLc>>
SpecOdds == InitOdds /\ [][NextOdds]_vars

InitEnrich == IdleOv /\ IdleTab /\ IdleLd /\ IdleLa /\ IdleTk /\ IdleCh /\ IdleVw /\ InitFn /\ IdleGr /\ IdleLc
NextEnrich ==
  \/ ApplyEnrichData(FeedData) /\ UNCHANGED <<varsOv, varsTab, varsLd, varsLa, varsTk, varsCh, varsVw, varsGr, varsLc>>
SpecEnrich == InitEnrich /\ [][NextEnrich]_vars

InitExposure == IdleOv /\ IdleTab /\ IdleLd /\ IdleLa /\ IdleTk /\ IdleCh /\ IdleVw /\ InitFn /\ IdleGr /\ IdleLc
NextExposure ==
  \/ ApplyEnrichData(ExposureFeeds) /\ UNCHANGED <<varsOv, varsTab, varsLd, varsLa, varsTk, varsCh, varsVw, varsGr, varsLc>>
SpecExposure == InitExposure /\ [][NextExposure]_vars

InitAdapter == IdleOv /\ IdleTab /\ IdleLd /\ IdleLa /\ IdleTk /\ IdleCh /\ IdleVw /\ InitFn /\ IdleGr /\ IdleLc
NextAdapter ==
  \/ ApplyFetchAndRenderPicks /\ UNCHANGED <<varsOv, varsTab, varsLd, varsLa, varsTk, varsCh, varsVw, varsGr, varsLc>>
SpecAdapter == InitAdapter /\ [][NextAdapter]_vars

InitGroups == IdleOv /\ IdleTab /\ IdleLd /\ IdleLa /\ IdleTk /\ IdleCh /\ IdleVw /\ InitFn /\ IdleGr /\ IdleLc
NextGroups ==
  \/ ApplyEnrichData(GroupFeeds) /\ UNCHANGED <<varsOv, varsTab, varsLd, varsLa, varsTk, varsCh, varsVw, varsGr, varsLc>>
SpecGroups == InitGroups /\ [][NextGroups]_vars

InitLoading == IdleOv /\ IdleTab /\ IdleLd /\ IdleLa /\ IdleTk /\ IdleCh /\ IdleVw /\ IdleFn /\ IdleGr /\ InitLc
NextLoading ==
  \/ LoadDataFails /\ UNCHANGED <<varsOv, varsTab, varsLd, varsLa, varsTk, varsCh, varsVw, varsFn, varsGr>>
  \/ LoadDataParses /\ UNCHANGED <<varsOv, varsTab, varsLd, varsLa, varsTk, varsCh, varsVw, varsFn, varsGr>>
  \/ ChangeFilter /\ UNCHANGED <<varsOv, varsTab, varsLd, varsLa, varsTk, varsCh, varsVw, varsFn, varsGr>>
SpecLoading == InitLoading /\ [][NextLoading]_vars

\* ------------------------------------------------------------------------
\* Claims
\* ------------------------------------------------------------------------

C2_LoadIsTotal ==
  (lastOp \in {"render", "setManual", "download"}
     /\ storage.kind \in {"absent", "invalid"}) => completed

C4_NoClickError ==
  (lastClicked # 0 /\ lastClicked \notin panelsPresent) => ~tabErr

\* C5: in app.js, part_008 and part_010, when the load of the primary feed
\* fails (network error, non-2xx status, parse failure), every tab shows
\* the failure message of this load and the failure is logged.
C5_AllTabsShowFailure ==
  (ldVariant \in {"app_js", "part_008", "part_010"}
     /\ ldPhase = "done" /\ IsFailure(ldOutcome)) =>
    /\ ldLogged
    /\ \A t \in TabsOf(ldVariant) : content[t] = Shown("failed", ldGen)

\* C6: in app.js and part_012, when one tab's renderer throws on loaded
\* data, every other tab is still rendered from that data.
C6_FailureIsolation ==
  (ldVariant \in {"app_js", "part_012"}
     /\ ldPhase = "done" /\ ldOutcome = "ok" /\ ldThrew # "none") =>
    \A t \in TabsOf(ldVariant) \ {ldThrew} : content[t] = Shown("data", ldGen)

\* C7: once a cycle holds a parsed data.json, its stats, parlay and picks
\* are eventually rendered, whether or not its scores.json request ever
\* settles.
C7_RenderWithoutScores ==
  \A c \in Cycles :
    [](laCycle[c].pc = "scores" /\ laCycle[c].data.throws = "none"
         => <>(laCycle[c].outcome \in {"rendered", "noscores"}))

\* C8: after a ticker refresh whose scores feed was unreachable or held no
\* games, the ticker shows a static segment written by that refresh.
C8_StaticSegmentOnFailure ==
  (tkLastDone # 0
     /\ tkRefresh[tkLastDone].outcome \in
          {"reject", "bad_json", "not_array", "json_null", "empty", "unreachable"}) =>
    /\ ticker.kind \in {"none", "failed"}
    /\ ticker.gen = tkLastDone

\* C9: after a load cycle whose renderers ran to the end, each sport's
\* container shows that load's picks for the sport, or the placeholder, and
\* never pick cards the load does not hold.
C9_PicksReplaced ==
  laLast # 0 =>
    \A k \in MappedKeys :
      LET cards == laCycle[laLast].data.pick_cards
          shown == picksDom[DomIdOf(k)]
      IN IF k \in DOMAIN cards
           THEN shown = (IF cards[k] = <<>> THEN Placeholder ELSE cards[k])
           ELSE shown \in {Markup, Placeholder}

\* C10: no canvas ever has more than one live chart instance, and no render
\* is refused because the canvas still carries the earlier instance.
C10_OneLiveChartPerCanvas ==
  /\ \A sl \in Slots :
       Cardinality({ c \in chLive : c.slot = sl /\ c.el = chEl[sl] }) <= 1
  /\ ~chInUse

\* C11: the paginated table uses a page size of 15: with n rows in the
\* filtered list, all of them renderable, page p shows exactly the rows
\* (p-1)*15+1 .. min(p*15, n) and the page count shown is ceil(n/15).
C11_PageSizeFifteen ==
  \A v \in Views :
    (/\ vwLastOp # "none" /\ vwThrew = "none"
     /\ dataFiltered[v] # <<>>
     /\ \A i \in 1..Len(dataFiltered[v]) : dataFiltered[v][i].numeric) =>
      LET n     == Len(dataFiltered[v])
          first == (page[v] - 1) * 15 + 1
          last  == IF page[v] * 15 < n THEN page[v] * 15 ELSE n
      IN /\ tbody[v] = Body("rows", [i \in 1..(last - first + 1) |-> first + i - 1])
         /\ pager[v].y = (n + 14) \div 15

\* C12: on a non-empty list, after every load and every Prev/Next click,
\* the page number is within 1..totalPages, the label shows that page of
\* totalPages, Prev is disabled exactly on page 1 and Next exactly on the
\* last page, and Next on the last page or Prev on the first leaves the
\* page number unchanged.
C12_PaginationBounds ==
  [][\A v \in Views :
       dataFiltered'[v] # <<>> =>
         LET total == TotalPages(v, Len(dataFiltered'[v]))
         IN /\ page'[v] \in 1..total
            /\ pager'[v].shown
            /\ pager'[v].x = page'[v]
            /\ pager'[v].y = total
            /\ pager'[v].prev <=> (page'[v] = 1)
            /\ pager'[v].next <=> (page'[v] = total)
            /\ (vwLastOp' = "next" /\ vwLastView' = v
                  /\ page[v] = TotalPages(v, Len(dataFiltered[v])))
                 => page'[v] = page[v]
            /\ (vwLastOp' = "prev" /\ vwLastView' = v /\ page[v] = 1)
                 => page'[v] = page[v]]_vars

\* C13: after a load, each view retains exactly the bets whose event time
\* t parses and satisfies 0 <= t - now <= horizon, in their order.
C13_WindowIsClosedInterval ==
  \A v \in Views :
    (vwLastOp = "load" /\ (v = "history" \/ vwThrew # "history")) =>
      dataFiltered[v] =
        SelectSeq(vwInput,
                  LAMBDA it : LET d == ParseDate(it.event_time)
                              IN /\ d.valid
                                 /\ 0 <= d.ms - vwNow[v]
                                 /\ d.ms - vwNow[v] <= Horizon(v))

\* C14: the output of makeBetId has the length of the five fields joined
\* with underscores, holds only characters of [A-Za-z0-9_], keeps every
\* character of the joined string that is in that class and has "_" at
\* every other position.
C14_MakeBetIdSanitises ==
  fnOp = "makeBetId" =>
    LET raw == Str(fnIn.sport) \o <<"_">> \o Str(fnIn.match) \o <<"_">>
                 \o Str(fnIn.team) \o <<"_">> \o Str(fnIn.market) \o <<"_">>
                 \o Str(fnIn.event_time)
    IN /\ Len(fnOut) = Len(raw)
       /\ \A i \in 1..Len(raw) :
            /\ fnOut[i] \in IdChars
            /\ raw[i] \in IdChars => fnOut[i] = raw[i]
            /\ raw[i] \notin IdChars => fnOut[i] = "_"

\* C14 witness: an identifier made from a record with a digit, a character
\* outside the class and a missing field.
C14_Witness ==
  /\ fnOp = "makeBetId"
  /\ fnIn.match = <<"7", "@">>
  /\ fnIn.event_time = Undef
  /\ fnOut = <<"n","b","a","_","7","_","_","t","_","h","2","h","_",
               "u","n","d","e","f","i","n","e","d">>

\* C15: every grade is sent under the bet's bet_id when it has one and
\* otherwise under the identifier derived from sport, match, team, market
\* and event time, never under the empty identifier.
C15_GradedUnderBetId ==
  \A k \in 1..Len(grReq) :
    /\ grReq[k].bet_id = BetIdOf(grReq[k].bet)
    /\ grReq[k].bet_id # <<>>

\* C16: every click has issued exactly one POST and nothing else has; the
\* page was reloaded once for each response that parsed to status "ok" and
\* never otherwise; every failed or refused request was followed by an
\* alert.
C16_GradeProtocol ==
  /\ grPosts = grClicks
  /\ grReloads = grOkSeen
  /\ grAlerts >= grFailed

\* C16 witness: two clicks; the service refused the first grade, which was
\* alerted and reloaded nothing, and accepted the second, which reloaded.
C16_Witness ==
  /\ grClicks = 2 /\ grPosts = 2
  /\ grFailed = 1 /\ grOkSeen = 1
  /\ grReloads = 1 /\ grAlerts = 2 /\ grReq = <<>>

\* C17: computeConfidence(score, edge) returns an integer in 1..5 for every
\* score and every edge, absent or non-finite arguments counting as 0.
C17_ConfidenceInOneToFive ==
  fnOp = "computeConfidence" =>
    /\ fnOut \in 1..5
    /\ (~fnIn.score.fin => fnOut = computeConfidence(Q(0, 1), fnIn.edge))
    /\ (~fnIn.edge.fin => fnOut = computeConfidence(fnIn.score, Q(0, 1)))

\* C18: the percentage confidence is 50 when the pick's odds are missing,
\* not numeric or zero, and otherwise the implied probability (100/(o+100)
\* for o > 0, |o|/(|o|+100) for o < 0) times 100, rounded, within 0..100.
C18_FallbackFifty ==
  fnOp = "computeConfidencePct" =>
    LET price == fnIn.price
        o == price.v
    IN IF price.kind # "num" \/ o = 0 THEN fnOut = 50
       ELSE /\ fnOut \in 0..100
            /\ fnOut = IF o > 0 THEN MathRound(Q(10000, o + 100))
                       ELSE MathRound(Q(100 * (-o), (-o) + 100))

\* C19 as stated: for finite non-zero odds o, impliedProbFromAmerican(o) is
\* strictly between 0 and 1 and americanToDecimal(o) equals
\* 1 + 1/impliedProbFromAmerican(o).
C19_RoundTrip ==
  (fnOp = "odds" /\ fnIn.fin /\ fnIn.n # 0) =>
    LET dec == fnOut.decimal
        p == fnOut.implied
    IN /\ dec.fin
       /\ 0 < p.n /\ p.n < p.d
       /\ dec.n * p.n = (p.n + p.d) * dec.d

\* C19 amended: for finite non-zero odds o, impliedProbFromAmerican(o) is
\* strictly between 0 and 1 and americanToDecimal(o) equals
\* 1/impliedProbFromAmerican(o).
C19_DecimalIsReciprocal ==
  (fnOp = "odds" /\ fnIn.fin /\ fnIn.n # 0) =>
    LET dec == fnOut.decimal
        p == fnOut.implied
    IN /\ dec.fin
       /\ 0 < p.n /\ p.n < p.d
       /\ dec.n * p.n = p.d * dec.d

\* C19 witness: odds -150 give the implied probability 3/5 and the decimal
\* odds 5/3.
C19_Witness ==
  /\ fnOp = "odds"
  /\ fnIn = Q(-150, 1)
  /\ 5 * fnOut.implied.n = 3 * fnOut.implied.d
  /\ 3 * fnOut.decimal.n = 5 * fnOut.decimal.d

\* C20: when the odds of a pick or open bet are zero, missing or not
\* numeric, its decimal odds, implied probability, edge, EV and potential
\* payout are the unavailable marker, and every one that is displayed is
\* displayed as the placeholder.
C20_NoPriceIsUnavailable ==
  fnOp = "enrichData" =>
    /\ \A i \in DOMAIN fnIn.todays_picks :
         LET odds == fnIn.todays_picks[i].odds
             p == fnOut.data.todays_picks[i]
             row == fnOut.pickRows[i]
         IN (odds.kind # "num" \/ odds.v = 0) =>
              /\ ~p.decimal_odds.fin /\ ~p.implied_prob.fin
              /\ ~p.edge.fin /\ ~p.ev_units.fin
              /\ (~row.threw =>
                    row.implied = Dash /\ row.edge = Dash /\ row.ev = Dash)
    /\ \A i \in DOMAIN fnIn.open_bets :
         LET odds == fnIn.open_bets[i].odds
             b == fnOut.data.open_bets[i]
             row == fnOut.openRows[i]
         IN (odds.kind # "num" \/ odds.v = 0) =>
              /\ ~b.decimal_odds.fin /\ ~b.implied_prob.fin
              /\ ~b.potential_payout.fin
              /\ row.implied = Dash /\ row.payout = Dash

\* C21: a pick's edge and EV are numbers exactly when the pick carries a
\* finite numeric win probability and its decimal odds are available and
\* greater than 1; otherwise both are the unavailable marker.
C21_EdgeOnlyWhenPriced ==
  fnOp = "enrichData" =>
    \A i \in DOMAIN fnIn.todays_picks :
      LET p == fnOut.data.todays_picks[i]
          dec == p.decimal_odds
          priced == /\ fnIn.todays_picks[i].win_probability.kind = "num"
                    /\ dec.fin /\ dec.n > dec.d
      IN /\ p.edge.fin <=> priced
         /\ p.ev_units.fin <=> priced

\* The sum of the coerced bet amounts of a list of open bets.
RECURSIVE SumOfStakes(_)
SumOfStakes(open) ==
  IF open = <<>> THEN Q(0, 1)
  ELSE QAdd(SumOfStakes(SubSeq(open, 1, Len(open) - 1)), toNumber(open[Len(open)].bet_amount))

\* The sum of the values of a rollup map.
RECURSIVE SumOfValues(_)
SumOfValues(mix) ==
  IF DOMAIN mix = {} THEN Q(0, 1)
  ELSE LET k == CHOOSE key \in DOMAIN mix : TRUE
       IN QAdd(mix[k], SumOfValues([key \in DOMAIN mix \ {k} |-> mix[key]]))

\* Equality of two fractions.
QEq(a, b) == a.n * b.d = b.n * a.d

C23_AdapterEquivalence ==
  (/\ fnOp = "fetchAndRenderPicks"
   /\ fnIn.status = "ok"
   /\ fnIn.shape \in {"array", "top10", "picks"}
   /\ Len(fnIn.list) = 1
   /\ fnIn.list[1].team # "#undefined"
   /\ fnIn.list[1].price # "#undefined") =>
    /\ Len(fnOut.picks) = 1
    /\ fnOut.picks[1].team = fnIn.list[1].team
    /\ fnOut.picks[1].price = fnIn.list[1].price

\* C24: every pick belongs to exactly one group, two picks share a group
\* exactly when their (sport, event) pairs are equal after absent values are
\* defaulted, and the group sizes sum to the pick count.
C24_GroupsPartitionPicks ==
  fnOp = "enrichData" =>
    LET picks == fnIn.todays_picks
        groups == fnOut.data.pick_groups
        GroupsOf(i) == {g \in DOMAIN groups :
                          \E k \in DOMAIN groups[g].picks : groups[g].picks[k] = i}
        Pair(i) == <<IF Truthy(picks[i].sport) THEN picks[i].sport
                     ELSE <<"u","n","k","n","o","w","n">>,
                     IF Truthy(picks[i].event) THEN picks[i].event
                     ELSE <<"U","n","k","n","o","w","n"," ","E","v","e","n","t">> >>
        Members == UNION {{<<g, k>> : k \in DOMAIN groups[g].picks} : g \in DOMAIN groups}
    IN /\ \A i \in DOMAIN picks : Cardinality(GroupsOf(i)) = 1
       /\ \A i, j \in DOMAIN picks : (GroupsOf(i) = GroupsOf(j)) <=> (Pair(i) = Pair(j))
       /\ Cardinality(Members) = Len(picks)

\* C25: at most one load cycle is in flight at any time: a timer tick that
\* fires while the previous cycle has not completed starts no second cycle.
C25_OneCycleInFlight ==
  Cardinality({c \in Cycles : laCycle[c].pc \in {"data", "scores"}}) <= 1

\* C26: once the data of the cycle started at tick k has been rendered, the
\* late completion of a cycle started earlier never overwrites the display:
\* no rendered section goes back to an older cycle.
C26_DisplayNeverRegresses ==
  [][/\ statsDom' >= statsDom
     /\ parlayDom' >= parlayDom
     /\ tickerDom'.gen >= tickerDom.gen
     /\ laLast' >= laLast]_vars

\* C27: after an analytics render whose source data for a chart is empty,
\* no live chart instance from an earlier render remains for that chart.
C27_NoChartOverEmptyData ==
  [][\A sl \in Slots :
       (/\ chRenders' = chRenders + 1
        /\ ~chThrew'
        /\ chInput'[sl] \in {"missing", "empty"}) =>
         ~\E c \in chLive \cap chLive' : c.slot = sl]_vars

\* C28: in every reachable state at most one of the loading indicator, the
\* main content and the error panel is visible; in particular the error
\* panel and the main content are never visible together.
C28_OneRegionVisible ==
  lcPhase # "idle" =>
    Cardinality({r \in {"loading", "main", "error"} : ~lcHidden[r]}) <= 1

\* Two loaded records are the same bet when they carry the same supplied
\* bet_id or, with none supplied, the same (sport, match, team, market,
\* event time) tuple.
SameBet(b, c) ==
  IF Truthy(b.bet_id) \/ Truthy(c.bet_id)
    THEN b.bet_id = c.bet_id
    ELSE <<b.sport, b.match, b.team, b.market, b.event_time>> =
         <<c.sport, c.match, c.team, c.market, c.event_time>>

\* C29: setting a manual result for one bet never changes the result shown,
\* on the current or any later render, for a different bet: a row shows a
\* manual result in place of its own only if its bet was graded.
C29_OverrideStaysWithItsBet ==
  (lastOp \in {"render", "setManual"} /\ completed) =>
    \A i \in 1..Len(rows) :
      (/\ rows[i].betId \in DOMAIN manual
       /\ rows[i].shown = manual[rows[i].betId]
       /\ rows[i].shown # ShowResult(loaded[i].result)) =>
        \E b \in graded : SameBet(b, loaded[i])

\* The entries the stored text holds (none unless it is a JSON object).
StoredMap(st) == IF st.kind = "object" THEN st.map ELSE NoMap

\* C30: setManual(id, r) changes only the stored entry for id and leaves
\* every other stored entry and the loaded bet records unchanged; rendering
\* the history tab, reloading and downloading leave the stored text
\* unchanged; hence the stored key set never shrinks.
C30_OverrideStoreFrame ==
  [][ /\ lastOp' = "setManual" =>
           /\ loaded' = loaded
           /\ \E i \in 1..Len(rows) :
                \A k \in (DOMAIN StoredMap(storage) \cup DOMAIN StoredMap(storage'))
                          \ {rows[i].betId} :
                  /\ k \in DOMAIN StoredMap(storage)
                  /\ k \in DOMAIN StoredMap(storage')
                  /\ StoredMap(storage')[k] = StoredMap(storage)[k]
      /\ lastOp' # "setManual" => storage' = storage
      /\ DOMAIN StoredMap(storage) \subseteq DOMAIN StoredMap(storage')
    ]_vars

\* A grading click has added an entry to a store that already held another,
\* and the other entry is still there.
C30_Witness ==
  /\ lastOp = "setManual"
  /\ completed
  /\ storage.kind = "object"
  /\ <<"x", "1">> \in DOMAIN storage.map
  /\ storage.map[<<"x", "1">>] = "PUSH"
  /\ \E i \in 1..Len(rows) :
       /\ rows[i].betId # <<"x", "1">>
       /\ rows[i].betId \in DOMAIN storage.map
       /\ storage.map[rows[i].betId] = rows[i].shown

====
